---- MODULE Spec2Model ----
(***************************************************************************)
(* State-machine model of the crawl / resolve / extract pipeline scripts.  *)
(*                                                                         *)
(*   Part A  find_contact_email.py   process_consolidated_csv (asyncio)    *)
(*   Part B  eu_startups_scraper.py  process_companies_from_files          *)
(*   Part C  eu_startups_integration.py extract_emails_from_websites       *)
(*   Part D  eu_startups_crawler.py  extract_company_links and             *)
(*           crawl_all_countries, driven by process_eu_startups            *)
(*                                                                         *)
(* Each part has its own variables, its own Init/Next and its own          *)
(* specification; the variables of the other parts are held constant.      *)
(***************************************************************************)
EXTENDS Integers, Sequences, FiniteSets, TLC

(***************************************************************************)
(* Bounds of the model                                                     *)
(***************************************************************************)
MaxCompanies == 2      \* rows of the input CSV of process_consolidated_csv
MaxWorkersArg == 2     \* largest ordinary --workers value tried
MaxRuns == 2           \* invocations of process_consolidated_csv on one input

(***************************************************************************)
(* Generic helpers                                                         *)
(***************************************************************************)
Max(a, b) == IF a >= b THEN a ELSE b
Min(a, b) == IF a <= b THEN a ELSE b

Range(s) == {s[i] : i \in 1..Len(s)}

SeqsUpTo(S, n) == UNION {[1..k -> S] : k \in 0..n}

IsPrefix(p, s) == Len(p) <= Len(s) /\ \A i \in 1..Len(p) : p[i] = s[i]

\* number of positions of s whose element satisfies Test
Count(s, Test(_)) == Cardinality({i \in 1..Len(s) : Test(s[i])})

VARIABLES
    \* ---- Part A: process_consolidated_csv ----
    input_csv,          \* rows of the input CSV (name, website_url)
    output_exists,      \* os.path.exists(output_csv)
    output_csv,         \* the data rows of the output CSV (the header is implicit)
    cpc,                \* "idle" | "running" | "finished" | "returned" | "interrupted" | "unreadable"
    existing_processed, \* website_urls read from the existing output
    mode,               \* open mode of the output file: "a" | "w"
    queue,              \* asyncio.Queue of companies
    workers,            \* the clamped worker count of the invocation
    unstarted,          \* worker tasks created that have not run yet
    busy,               \* companies inside find_emails_for_company
    stats,              \* the stats dictionary (without the lock)
    runs,               \* invocations so far
    \* history of the current invocation
    oldfile,            \* on a confirmed resume: the data rows found in the output
    confirmed,          \* the output existed and the operator answered yes
    after_interrupt,    \* the invocation before this one was interrupted
    queued,             \* the companies put on the queue
    dequeued,           \* names taken from the queue, in order
    written,            \* rows written by this invocation, in order
    \* ---- Part B: process_companies_from_files ----
    crawl_files,        \* crawl_results/<country>_companies.txt: the links
    max_workers,        \* the max_workers argument
    spc,                \* "idle" | "files" | "pool" | "done" | "raised"
    file_idx,           \* position in os.listdir(crawl_dir)
    companies,          \* companies read from the current file
    seen_urls,          \* eu_startups_urls seen, kept across countries
    country_results,    \* results kept for the current country
    all_companies,      \* the list returned at the end
    next_task,          \* first submitted task no thread has taken yet
    in_flight,          \* tasks running in a pool thread
    processed_count,    \* the progress counter of the current country
    raised,             \* tasks of the current country that raised
    scrape_files,       \* scrape_results/<country>_websites.csv: the rows
    returned,           \* per country: links a worker returned a result for
    finished,           \* countries whose file has been processed
    websites_csv,       \* the rows of european_startup_websites.csv
    \* ---- Part C: extract_emails_from_websites ----
    resolved,           \* the companies argument
    xpc,                \* "idle" | "loop" | "done" | "raised"
    unique_companies,   \* the companies kept by the deduplication
    dedup_keys,         \* the keys seen by the deduplication
    loop_i,             \* index of the next company of the loop
    contact_csv,        \* data rows of the output CSV
    scanned,            \* website_urls passed to find_emails_for_company
    \* ---- Part D: extract_company_links ----
    site,               \* the pages of the directory, as far as they were served
    lpc,                \* "idle" | "fetch" | "crawled" (the list is returned)
    country_url,        \* the country_url argument
    current_url,        \* URL of the page to fetch next
    page_num,
    total_pages_found,
    listed,             \* the companies list of extract_company_links
    fetched,            \* URLs passed to _get_page_content, in order
    fetch_failed,       \* some fetch of this crawl returned ""
    max_pages,          \* the max_pages argument of this crawl
    \* ---- Part E: process_eu_startups, crawl_all_countries ----
    ppc,                \* "idle" | "listing" | "resolving" | "extracting" | "done" | "nocompanies"
    recrawl,            \* the recrawl argument
    filter_country,     \* the filter_country argument, <<>> when not given
    country_links,      \* the (link, country) pairs crawl_all_countries walks
    link_idx,           \* position of the for loop in country_links
    checkpoints,        \* crawl_results/<safe_country>_companies.txt
    checkpoints0,       \* the checkpoint files as the run found them
    countries_data,     \* the dictionary crawl_all_countries builds
    listing_log,        \* per country, the listing URLs fetched in this run
    stages,             \* the stages entered, in order
    final_written,      \* european_ai_startups_contact_info.csv was written
    \* ---- Part F: consolidate_csv_files ----
    country_rows,      \* the rows of scrape_results/*_websites.csv, in reading order
    dpc,               \* "idle" | "merging" | "done"
    row_idx,           \* position of the loop over the rows
    unique_by_url,     \* the values of the unique_companies dictionary, in insertion order
    replaced,          \* rows that took the place of a kept row, with the row they replaced
    consolidated_csv,  \* the rows of european_startup_websites.csv
    \* ---- Part G: scan_page_for_emails ----
    scan_args,          \* url, the page as crawled and what the LLM runs answer
    scan_ret,           \* what scan_page_for_emails returned
    scanpc,             \* "idle" | "returned"
    \* ---- Part H: find_emails_for_company, extract_links_from_page ----
    fpc,                \* "idle" | "main" | "links" | "loop" | "returned"
    website_url,        \* the website_url argument
    emails,             \* the emails list, as a set
    links_to_check,     \* what extract_links_from_page returned
    link_i,             \* position of the loop over links_to_check
    checked_count,
    scan_log,           \* the URLs passed to scan_page_for_emails, in order
    mailto_log,         \* the mailto anchors of the page and the emails they gave
    llm_log,            \* per scan, the LLM runs made and whether a configuration error was reported
    find_ret,           \* the list returned, as a set
    \* ---- Part I: get_company_info_from_seedtable ----
    ipc,                \* "idle" | "get" | "linkedin" | "name" | "returned" | "raised"
    company_id,         \* the slug of the company, as its hyphen-separated segments
    company_info,       \* name, websites, linkedin
    guess_i,            \* position in website_guesses
    field_websites,     \* the website links the detail page held
    probes,             \* the HEAD probes issued, in order, with their verdict
    \* ---- Part J: crawl_startups ----
    jpc,                \* "idle" | "crawling" | "ended"
    page_number,
    all_startups,       \* the names of the startups collected, as a set
    seen_names,
    page_yields,        \* per page fetched, the number of startups it yielded
    end_reason,         \* "" | "no_results" | "empty_pages"
    \* ---- Part K: EUStartupsScraper._get_page_content ----
    gpc,                \* "idle" | "get" | "returned" | "raised"
    get_url,
    http_log,           \* the status of every HTTP request sent, in order
    slept,              \* time slept inside the call, in tenths of a second
    get_ret,            \* the string returned
    get_error,          \* "" | "http" | "network" | "unexpected"
    \* ---- Part L: process_country_csv_files ----
    csv_files,          \* per country, the *_websites.csv file of scrape_results
    ccpc,               \* "idle" | "nofiles" | "loop" | "done"
    companies_list,     \* list(unique_companies.values())
    list_i,
    emails_csv,         \* the rows of the output file, when it has been opened
    emails_csv_opened,
    extract_log,        \* per company processed, how the extraction ended
    \* ---- Part M: the names of the checkpoint files ----
    mpc,                \* "idle" | "written" | "looked"
    label,              \* the country label, a sequence of characters
    crawl_dir,          \* the names of the files in crawl_results
    writer,             \* the script that wrote the checkpoint
    reader,             \* the script that looked for it
    found,
    \* ---- Part N: the emails of one website, from the lists collected to the row ----
    jpc_emails,         \* "idle" | "written"
    collected,          \* the lists of the main page, the mailto links and the followed links
    emails_value,       \* the emails column of the row, as the list that is joined
    \* ---- Part O: process_company, the row-write section ----
    csv_lock,           \* the worker that holds stats['csv_lock'], NoHolder when it is free
    wpc,                \* per worker: "loop" | "extract" | "acquire" | "section" | "written" | "exit"
    wpath,              \* per worker, the path of process_company it is on
    pending,            \* companies still in the queue
    row_log,            \* per row written, the path that wrote it
    \* ---- Part P: the sessions of the threads that share one EUStartupsScraper ----
    session_local,      \* per thread, the session attribute of self.session_local
    tpc,                \* per thread: "idle" | "check" | "create" | "get"
    sessions_made,      \* per thread, the sessions it created
    session_uses,       \* the <<thread, session>> pairs of the session.get calls
    next_session,       \* sessions created so far
    tasks_left          \* calls of _get_page_content still to be made

varsA == <<input_csv, output_exists, output_csv, cpc, existing_processed, mode,
           queue, workers, unstarted, busy, stats, runs, oldfile, confirmed,
           after_interrupt, queued, dequeued, written>>

varsB == <<crawl_files, max_workers, spc, file_idx, companies, seen_urls,
           country_results, all_companies, next_task, in_flight,
           processed_count, raised, scrape_files, returned, finished,
           websites_csv>>

varsC == <<resolved, xpc, unique_companies, dedup_keys, loop_i, contact_csv,
           scanned>>

varsD == <<site, lpc, country_url, current_url, page_num, total_pages_found,
           listed, fetched, fetch_failed, max_pages>>

varsE == <<ppc, recrawl, filter_country, country_links, link_idx, checkpoints, checkpoints0,
           countries_data, listing_log, stages, final_written>>

varsF == <<country_rows, dpc, row_idx, unique_by_url, replaced,
           consolidated_csv>>

varsG == <<scan_args, scan_ret, scanpc>>

varsH == <<fpc, website_url, emails, links_to_check, link_i, checked_count,
           scan_log, llm_log, find_ret, mailto_log>>

varsI == <<ipc, company_id, company_info, guess_i, field_websites, probes>>

varsJ == <<jpc, page_number, all_startups, seen_names, page_yields,
           end_reason>>

varsK == <<gpc, get_url, http_log, slept, get_ret, get_error>>

varsL == <<csv_files, ccpc, companies_list, list_i, emails_csv,
           emails_csv_opened, extract_log>>

varsM == <<mpc, label, crawl_dir, writer, reader, found>>

varsN == <<jpc_emails, collected, emails_value>>

varsO == <<csv_lock, wpc, wpath, pending, row_log>>

varsP == <<session_local, tpc, sessions_made, session_uses, next_session,
           tasks_left>>

vars == <<varsA, varsB, varsC, varsD, varsE, varsF, varsG, varsH, varsI, varsJ, varsK, varsL, varsM, varsN, varsO, varsP>>

\* what the steps of one part leave alone
notA == <<varsB, varsC, varsD, varsE, varsF, varsG, varsH, varsI, varsJ, varsK, varsL, varsM, varsN, varsO, varsP>>
notB == <<varsA, varsC, varsD, varsE, varsF, varsG, varsH, varsI, varsJ, varsK, varsL, varsM, varsN, varsO, varsP>>
notC == <<varsA, varsB, varsD, varsE, varsF, varsG, varsH, varsI, varsJ, varsK, varsL, varsM, varsN, varsO, varsP>>
notD == <<varsA, varsB, varsC, varsE, varsF, varsG, varsH, varsI, varsJ, varsK, varsL, varsM, varsN, varsO, varsP>>
notE == <<varsA, varsB, varsC, varsF, varsG, varsH, varsI, varsJ, varsK, varsL, varsM, varsN, varsO, varsP>>
notF == <<varsA, varsB, varsC, varsD, varsE, varsG, varsH, varsI, varsJ, varsK, varsL, varsM, varsN, varsO, varsP>>
notG == <<varsA, varsB, varsC, varsD, varsE, varsF, varsH, varsI, varsJ, varsK, varsL, varsM, varsN, varsO, varsP>>
notH == <<varsA, varsB, varsC, varsD, varsE, varsF, varsG, varsI, varsJ, varsK, varsL, varsM, varsN, varsO, varsP>>
notI == <<varsA, varsB, varsC, varsD, varsE, varsF, varsG, varsH, varsJ, varsK, varsL, varsM, varsN, varsO, varsP>>
notJ == <<varsA, varsB, varsC, varsD, varsE, varsF, varsG, varsH, varsI, varsK, varsL, varsM, varsN, varsO, varsP>>
notK == <<varsA, varsB, varsC, varsD, varsE, varsF, varsG, varsH, varsI, varsJ, varsL, varsM, varsN, varsO, varsP>>
notL == <<varsA, varsB, varsC, varsD, varsE, varsF, varsG, varsH, varsI, varsJ, varsK, varsM, varsN, varsO, varsP>>
notM == <<varsA, varsB, varsC, varsD, varsE, varsF, varsG, varsH, varsI, varsJ, varsK, varsL, varsN, varsO, varsP>>
notN == <<varsA, varsB, varsC, varsD, varsE, varsF, varsG, varsH, varsI, varsJ, varsK, varsL, varsM, varsO, varsP>>
notO == <<varsA, varsB, varsC, varsD, varsE, varsF, varsG, varsH, varsI, varsJ, varsK, varsL, varsM, varsN, varsP>>
notP == <<varsA, varsB, varsC, varsD, varsE, varsF, varsG, varsH, varsI, varsJ, varsK, varsL, varsM, varsN, varsO>>

(***************************************************************************)
(* Part A.  find_contact_email.py: process_consolidated_csv                *)
(***************************************************************************)
NoCompany == [name |-> 0, website_url |-> ""]
WebsiteUrls == {"http://a", "http://b"}
EmptyUrl == ""
WorkerCap == 20

\* the values tried for --workers, some of them below the clamp range
WorkerArgs == -1 .. MaxWorkersArg

Company(n, u) == [name |-> n, website_url |-> u]

\* an input CSV: row i is named i, its website_url is empty or a URL
InputCsvs ==
    {[i \in 1..Len(us) |-> Company(i, us[i])] :
        us \in SeqsUpTo(WebsiteUrls \cup {EmptyUrl}, MaxCompanies)}

Row(c, e) == [name |-> c.name, website_url |-> c.website_url, emails |-> e]

\* outcomes of find_emails_for_company: a non-empty list, an empty list, or
\* an exception (raised by the configuration calls before its try block)
Outcomes == {"found", "none", "raise"}

EmailsField(outcome) ==
    CASE outcome = "found" -> "info@x.io"
      [] outcome = "none"  -> ""
      [] outcome = "raise" -> "ERROR: e"

ZeroStats == [success_count |-> 0, error_count |-> 0, skip_count |-> 0,
              processed_count |-> 0, active_workers |-> 0]

\* a mutation of ClampWorkers: the number of workers as it was given
WorkersAsGiven(w) == w

\* workers = max(1, min(workers, 20))
ClampWorkers(w) == Max(1, Min(w, WorkerCap))

\* a mutation of ReadExisting: rows with an error marker are left out
ReadExistingWithoutErrors(file) ==
    {file[i].website_url :
        i \in {j \in 1..Len(file) : /\ file[j].website_url # EmptyUrl
                                     /\ file[j].emails # "ERROR: e"}}

\* the website_urls of the rows of an existing output (empty ones are not added)
ReadExisting(file) ==
    {file[i].website_url : i \in {j \in 1..Len(file) : file[j].website_url # EmptyUrl}}

\* companies = [c for c in companies if c.get('website_url') not in existing_processed]
FilterProcessed(cs, existing) ==
    IF existing = {} THEN cs
    ELSE SelectSeq(cs, LAMBDA c : c.website_url \notin existing)

\* mode = 'a' if existing_processed and os.path.exists(output_csv) else 'w'
OpenMode(existing, exists) ==
    IF existing # {} /\ exists THEN "a" ELSE "w"

\* process_company, no-website branch: one row with empty emails
NoUrlRows(c) == <<Row(c, EmptyUrl)>>

\* process_company, after find_emails_for_company returned or raised: one
\* row on the success path and one on the except path
ExtractedRowsDropError(c, outcome) ==
    IF outcome = "raise" THEN <<>> ELSE <<Row(c, EmailsField(outcome))>>

ExtractedRows(c, outcome) == <<Row(c, EmailsField(outcome))>>

ExtractedStats(st, outcome) ==
    CASE outcome = "found" -> [st EXCEPT !.success_count = @ + 1]
      [] outcome = "none"  -> st
      [] outcome = "raise" -> [st EXCEPT !.error_count = @ + 1]

\* The body of worker() from the loop test up to the next point where the
\* coroutine is suspended (inside find_emails_for_company) or leaves the
\* loop.  queue.get() on a non-empty queue and the uncontended csv_lock do
\* not suspend, so companies without a website are written in the same step.
RECURSIVE WorkerLoop(_, _, _, _)
WorkerLoop(q, rows, st, deq) ==
    IF q = <<>>
    THEN [queue |-> q, rows |-> rows, dequeued |-> deq, company |-> NoCompany,
          stats |-> [st EXCEPT !.active_workers = @ - 1]]
    ELSE LET c == Head(q) IN
         IF c.website_url = EmptyUrl
         THEN WorkerLoop(Tail(q), rows \o NoUrlRows(c),
                         [st EXCEPT !.skip_count = @ + 1,
                                    !.processed_count = @ + 1],
                         Append(deq, c.name))
         ELSE [queue |-> Tail(q), rows |-> rows, dequeued |-> Append(deq, c.name),
               company |-> c, stats |-> st]

RestA ==
    /\ output_exists = FALSE
    /\ output_csv = <<>>
    /\ cpc = "idle"
    /\ existing_processed = {}
    /\ mode = "w"
    /\ queue = <<>>
    /\ workers = 0
    /\ unstarted = 0
    /\ busy = {}
    /\ stats = ZeroStats
    /\ runs = 0
    /\ after_interrupt = FALSE
    /\ oldfile = <<>>
    /\ confirmed = FALSE
    /\ queued = <<>>
    /\ dequeued = <<>>
    /\ written = <<>>

InitA == input_csv \in InputCsvs /\ RestA

QuietA == input_csv = <<>> /\ RestA

\* process_consolidated_csv up to the creation of the worker tasks; when
\* reading input_csv raises it returns at once
StartRun(w, answer, readable) ==
    /\ cpc \in {"idle", "finished", "returned", "interrupted", "unreadable"}
    /\ runs < MaxRuns
    /\ runs' = runs + 1
    /\ IF ~readable
       THEN /\ cpc' = "unreadable"
            /\ UNCHANGED <<output_exists, output_csv, existing_processed, mode,
                           queue, workers, unstarted, busy, stats, oldfile,
                           confirmed, after_interrupt, queued, dequeued, written>>
       ELSE LET exists    == output_exists
                existing  == IF exists /\ answer = "y" THEN ReadExisting(output_csv) ELSE {}
                todo == FilterProcessed(input_csv, existing)
                m         == OpenMode(existing, exists)
            IN  /\ existing_processed' = existing
                /\ confirmed' = (exists /\ answer = "y")
                /\ after_interrupt' = (cpc = "interrupted")
                /\ oldfile' = IF exists /\ answer = "y" THEN output_csv ELSE <<>>
                /\ queued' = todo
                /\ dequeued' = <<>>
                /\ written' = <<>>
                /\ busy' = {}
                /\ IF Len(todo) = 0
                   THEN /\ cpc' = "returned"
                        /\ queue' = <<>>
                        /\ unstarted' = 0
                        /\ UNCHANGED <<output_exists, output_csv, mode, stats, workers>>
                   ELSE /\ cpc' = "running"
                        /\ mode' = m
                        /\ output_exists' = TRUE
                        /\ output_csv' = IF m = "a" THEN output_csv ELSE <<>>
                        /\ stats' = ZeroStats
                        /\ queue' = todo
                        /\ workers' = ClampWorkers(w)
                        /\ unstarted' = ClampWorkers(w)
    /\ UNCHANGED input_csv
    /\ UNCHANGED notA

\* a worker task runs for the first time
WorkerStart ==
    /\ cpc = "running"
    /\ unstarted > 0
    /\ LET r == WorkerLoop(queue, <<>>,
                           [stats EXCEPT !.active_workers = @ + 1], dequeued)
       IN  /\ unstarted' = unstarted - 1
           /\ queue' = r.queue
           /\ stats' = r.stats
           /\ dequeued' = r.dequeued
           /\ output_csv' = output_csv \o r.rows
           /\ written' = written \o r.rows
           /\ busy' = IF r.company = NoCompany THEN busy ELSE busy \cup {r.company}
    /\ UNCHANGED <<input_csv, output_exists, cpc, existing_processed, mode,
                   workers, runs, oldfile, confirmed, after_interrupt, queued>>
    /\ UNCHANGED notA

\* find_emails_for_company returns or raises in some worker; the worker
\* writes the row, counts the company and goes round its loop
ExtractReturn(c, outcome) ==
    /\ cpc = "running"
    /\ c \in busy
    /\ LET mine == ExtractedRows(c, outcome)
           st   == [ExtractedStats(stats, outcome) EXCEPT !.processed_count = @ + 1]
           r    == WorkerLoop(queue, mine, st, dequeued)
       IN  /\ queue' = r.queue
           /\ stats' = r.stats
           /\ dequeued' = r.dequeued
           /\ output_csv' = output_csv \o r.rows
           /\ written' = written \o r.rows
           /\ busy' = IF r.company = NoCompany
                      THEN busy \ {c} ELSE (busy \ {c}) \cup {r.company}
    /\ UNCHANGED <<input_csv, output_exists, cpc, existing_processed, mode,
                   workers, runs, unstarted, oldfile, confirmed, after_interrupt,
                   queued>>
    /\ UNCHANGED notA

\* asyncio.gather returns: every worker task has ended; the file is closed
GatherReturns ==
    /\ cpc = "running"
    /\ unstarted = 0
    /\ busy = {}
    /\ cpc' = "finished"
    /\ UNCHANGED <<input_csv, output_exists, output_csv, existing_processed,
                   mode, queue, workers, unstarted, busy, stats, runs, oldfile,
                   confirmed, after_interrupt, queued, dequeued, written>>
    /\ UNCHANGED notA

\* the process is interrupted; the finally clause closes the file, the rows
\* written so far stay in it and everything in memory is lost
Interrupt ==
    /\ cpc = "running"
    /\ cpc' = "interrupted"
    /\ queue' = <<>>
    /\ unstarted' = 0
    /\ busy' = {}
    /\ stats' = ZeroStats
    /\ existing_processed' = {}
    /\ confirmed' = FALSE
    /\ oldfile' = <<>>
    /\ queued' = <<>>
    /\ dequeued' = <<>>
    /\ written' = <<>>
    /\ after_interrupt' = FALSE
    /\ UNCHANGED <<input_csv, output_exists, output_csv, mode, workers, runs>>
    /\ UNCHANGED notA

NextA ==
    \/ \E w \in WorkerArgs, answer \in {"y", "n"}, readable \in BOOLEAN :
          StartRun(w, answer, readable)
    \/ WorkerStart
    \/ \E c \in busy, outcome \in Outcomes : ExtractReturn(c, outcome)
    \/ GatherReturns
    \/ Interrupt

(***************************************************************************)
(* Part A: properties                                                      *)
(***************************************************************************)
RowsWithUrl(file, u) == Count(file, LAMBDA r : r.website_url = u)

KeySet(rows) == {rows[i].website_url : i \in 1..Len(rows)}

NonEmptyKeys(rows) == KeySet(rows) \ {EmptyUrl}

\* C1: a fresh (non-resumed) run of process_consolidated_csv that has
\* finished has written exactly one output row for every distinct non-empty
\* website_url of the input CSV.
C1_FreshRunOneRowPerUrl ==
    (cpc = "finished" /\ ~confirmed) =>
        \A u \in NonEmptyKeys(input_csv) : RowsWithUrl(output_csv, u) = 1

\* C4: idempotent resume.  When an interrupted run is followed by a run on
\* the same input with resume confirmed, the final output has the key set of
\* one uninterrupted run (the website_urls of the input rows) and no
\* non-empty website_url in two rows.
C4_IdempotentResume ==
    (cpc \in {"finished", "returned"} /\ confirmed /\ after_interrupt) =>
        /\ KeySet(output_csv) = KeySet(input_csv)
        /\ \A u \in NonEmptyKeys(output_csv) : RowsWithUrl(output_csv, u) = 1

\* C5: concurrent write safety.  When the workers of a run have all ended,
\* every queued company was dequeued exactly once and has exactly one row
\* among the rows the run wrote (with its emails, empty, or an ERROR
\* marker), so the run added exactly M rows for M queued companies.
C5_ExactlyOneRowPerQueued ==
    cpc = "finished" =>
        /\ Len(dequeued) = Len(queued)
        /\ Len(written) = Len(queued)
        /\ \A i \in 1..Len(queued) :
              /\ Count(dequeued, LAMBDA n : n = queued[i].name) = 1
              /\ Count(written, LAMBDA r : r.name = queued[i].name) = 1
              /\ \E j \in 1..Len(written) :
                    /\ written[j].name = queued[i].name
                    /\ written[j].website_url = queued[i].website_url
                    /\ written[j].emails \in {EmailsField(o) : o \in Outcomes}
        /\ output_csv = (IF mode = "a" THEN oldfile ELSE <<>>) \o written

\* C5 witness: a finished run with several companies, more than one worker,
\* an ERROR row, and rows written out of queue order.
C5_Witness ==
    /\ cpc = "finished"
    /\ Len(queued) >= 2
    /\ workers >= 2
    /\ \E j \in 1..Len(written) : written[j].emails = EmailsField("raise")
    /\ written[1].name # queued[1].name

\* C5 (M < N): a finished run that started more workers than it had companies
C5_WitnessFewerCompaniesThanWorkers ==
    /\ cpc = "finished"
    /\ Len(queued) < workers
    /\ Len(written) = Len(queued)

\* C7: on a resumed run (the output existed and resume was confirmed) no
\* company whose website_url is already in the existing output is written
\* again, and the existing rows stay where they are: the output is the old
\* rows followed by the rows of this run.
C7_ResumeAppendsOnly ==
    confirmed =>
        /\ output_csv = oldfile \o written
        /\ \A j \in 1..Len(written) :
              written[j].website_url # EmptyUrl =>
                  written[j].website_url \notin ReadExisting(oldfile)

\* find_emails_for_company returns or raises in one of the workers
SomeExtractReturn == \E c \in busy, outcome \in Outcomes : ExtractReturn(c, outcome)

\* the worker tasks of a run have ended
AllWorkersExited == unstarted = 0 /\ busy = {} /\ stats.active_workers = 0

ActiveWorkersInRange ==
    cpc = "running" =>
        /\ 1 <= workers /\ workers <= WorkerCap
        /\ 0 <= stats.active_workers /\ stats.active_workers <= workers

CountsAfterGather ==
    cpc = "finished" =>
        /\ stats.processed_count = Len(queued)
        /\ stats.active_workers = 0
        /\ queue = <<>>

\* C36: in a run with a non-empty queue, whatever the number of workers
\* asked for, every worker task ends unless the process is interrupted, and
\* gather returns; then processed_count is the number of companies queued
\* and active_workers is 0; active_workers is always between 0 and the
\* clamped number of workers.
C36_WorkersExitAndCountsMatch ==
    /\ [](cpc = "running" => <>(AllWorkersExited \/ cpc = "interrupted"))
    /\ [](cpc = "running" => <>(cpc \in {"finished", "interrupted"}))
    /\ []CountsAfterGather
    /\ []ActiveWorkersInRange

\* a run with one worker and two companies queued has ended with both
\* processed
C36_Witness ==
    /\ cpc = "finished"
    /\ workers = 1
    /\ Len(queued) = 2
    /\ stats.processed_count = 2

\* C38: over a first run and the resumed runs that follow it on the same
\* input, the output file holds at most one row for each input row, also
\* for the input rows without website_url.
C38_EachInputRowWrittenOnce ==
    \A i \in 1..Len(input_csv) :
        Cardinality({j \in 1..Len(output_csv) :
                        output_csv[j].name = input_csv[i].name}) <= 1

\* the rows with an error marker in the output file a resumed run found
ErrorRowsFound == {k \in 1..Len(oldfile) : oldfile[k].emails = EmailsField("raise")}

\* C39: in a resumed run, a company whose row in the output file carries an
\* error marker is not queued again, the rows the run found stay as they
\* were at the head of the file, and no row the run adds has the
\* website_url of an error row.
C39_ErrorRowsCountAsProcessed ==
    (confirmed /\ cpc \in {"running", "finished", "returned"}) =>
        \A k \in ErrorRowsFound :
            /\ \A i \in 1..Len(queued) :
                   queued[i].website_url # oldfile[k].website_url
            /\ \A c \in busy : c.website_url # oldfile[k].website_url
            /\ IsPrefix(oldfile, output_csv)
            /\ \A j \in (Len(oldfile) + 1)..Len(output_csv) :
                   output_csv[j].website_url # oldfile[k].website_url

\* a resumed run that found an error row has ended and has added the row of
\* another company
C39_Witness ==
    /\ confirmed
    /\ cpc = "finished"
    /\ ErrorRowsFound # {}
    /\ Len(output_csv) > Len(oldfile)

(***************************************************************************)
(* Part B.  eu_startups_scraper.py: process_companies_from_files           *)
(***************************************************************************)
MaxLinks == 2          \* links in one small crawl_results file
MaxThreads == 2        \* largest max_workers tried
MaxRaises == 1         \* tasks of one file that raise

SaveEvery == 20

\* the files of crawl_results, in os.listdir order
Countries == <<"A", "B">>
CountrySet == Range(Countries)

Links == {1, 2}

\* a file long enough for the periodic save to happen before the last result
LongList == [i \in 1..(SaveEvery + 1) |-> i]

\* the values tried for --threads: none, a few, more than the cap of the
\* other stage
ThreadArgs == (0..MaxThreads) \cup {WorkerCap + 1}

\* the inputs tried: every pair of short files with every thread count, and
\* the long file with one thread (its completion order is then fixed)
ScrapeInputs ==
    {<<[c \in CountrySet |-> IF c = "A" THEN fa ELSE fb], n>> :
        fa \in SeqsUpTo(Links, MaxLinks), fb \in SeqsUpTo(Links, MaxLinks),
        n \in ThreadArgs}
    \cup {<<[c \in CountrySet |-> IF c = "A" THEN LongList ELSE <<>>], 1>>}

NoScrapeFile == [exists |-> FALSE, rows |-> <<>>]

\* process_company / extract_website_url: the result for one company
Result(link, country) == [eu_startups_url |-> link, country |-> country]

\* save_interim_scrape_results: open the country's CSV in append mode and
\* write one row per company of the list passed in
save_interim_scrape_results(files, country, results) ==
    [files EXCEPT ![country] = [exists |-> TRUE, rows |-> @.rows \o results]]

\* if (len(country_results) % 20 == 0) or (len(country_results) == len(companies))
SaveDue(results, comps) ==
    (Len(results) % SaveEvery = 0) \/ (Len(results) = Len(comps))

\* the pool threads take the submitted tasks in submission order
TakeNext(flight, nxt, n) ==
    IF nxt <= n THEN [in_flight |-> flight \cup {nxt}, next_task |-> nxt + 1]
    ELSE [in_flight |-> flight, next_task |-> nxt]

\* the second, per-country duplicate filter
RECURSIVE UniqueByUrl(_, _)
UniqueByUrl(results, seen) ==
    IF results = <<>> THEN <<>>
    ELSE IF Head(results).eu_startups_url \in seen
         THEN UniqueByUrl(Tail(results), seen)
         ELSE <<Head(results)>> \o
              UniqueByUrl(Tail(results), seen \cup {Head(results).eu_startups_url})

\* the empty string as eu_startups_url
NoLink == 0

\* a mutation of AlreadySeen: only the results of the country at hand count
SeenInCountry(result, seen) ==
    \E r \in Range(country_results) : r.eu_startups_url = result.eu_startups_url

\* if result['eu_startups_url'] in seen_urls
AlreadySeen(result, seen) == result.eu_startups_url \in seen

\* save_all_results: the rows written to european_startup_websites.csv
RECURSIVE save_all_results(_, _)
save_all_results(comps, seen) ==
    IF comps = <<>> THEN <<>>
    ELSE LET url == Head(comps).eu_startups_url IN
         IF url # NoLink /\ url \notin seen
         THEN <<Head(comps)>> \o save_all_results(Tail(comps), seen \cup {url})
         ELSE save_all_results(Tail(comps), seen)

RestB ==
    /\ spc = "idle"
    /\ file_idx = 0
    /\ companies = <<>>
    /\ seen_urls = {}
    /\ country_results = <<>>
    /\ all_companies = <<>>
    /\ next_task = 1
    /\ in_flight = {}
    /\ processed_count = 0
    /\ raised = 0
    /\ scrape_files = [c \in CountrySet |-> NoScrapeFile]
    /\ returned = [c \in CountrySet |-> {}]
    /\ finished = {}
    /\ websites_csv = <<>>

InitB ==
    /\ \E inp \in ScrapeInputs : crawl_files = inp[1] /\ max_workers = inp[2]
    /\ RestB

QuietB ==
    /\ crawl_files = [c \in CountrySet |-> <<>>]
    /\ max_workers = 1
    /\ RestB

\* process_companies_from_files up to the loop over the files
StartScrape ==
    /\ spc = "idle"
    /\ spc' = "files"
    /\ seen_urls' = {}
    /\ all_companies' = <<>>
    /\ file_idx' = 1
    /\ UNCHANGED <<crawl_files, max_workers, companies, country_results,
                   next_task, in_flight, processed_count, raised, scrape_files,
                   returned, finished, websites_csv>>
    /\ UNCHANGED notB

\* one file: read the companies, create the pool, submit every task.
\* ThreadPoolExecutor(max_workers) raises ValueError for max_workers <= 0.
BeginCountry ==
    /\ spc = "files"
    /\ file_idx <= Len(Countries)
    /\ LET comps == crawl_files[Countries[file_idx]]
           n     == Len(comps)
           k     == Min(max_workers, n)
       IN  /\ companies' = comps
           /\ in_flight' = IF max_workers <= 0 THEN {} ELSE 1..k
           /\ next_task' = IF max_workers <= 0 THEN 1 ELSE k + 1
    /\ country_results' = <<>>
    /\ processed_count' = 0
    /\ raised' = 0
    /\ spc' = IF max_workers <= 0 THEN "raised" ELSE "pool"
    /\ UNCHANGED <<crawl_files, max_workers, file_idx, seen_urls, all_companies,
                   scrape_files, returned, finished, websites_csv>>
    /\ UNCHANGED notB

\* a task ends and as_completed hands its future to the loop body
FutureDone(i, outcome) ==
    /\ spc = "pool"
    /\ i \in in_flight
    /\ outcome = "raise" => raised < MaxRaises
    /\ raised' = IF outcome = "raise" THEN raised + 1 ELSE raised
    /\ LET country == Countries[file_idx]
           result  == Result(companies[i], country)
           t       == TakeNext(in_flight \ {i}, next_task, Len(companies))
       IN  /\ in_flight' = t.in_flight
           /\ next_task' = t.next_task
           /\ processed_count' = processed_count + 1
           /\ IF outcome = "raise"
              THEN UNCHANGED <<seen_urls, country_results, scrape_files, returned>>
              ELSE /\ returned' = [returned EXCEPT ![country] = @ \cup {companies[i]}]
                   /\ IF AlreadySeen(result, seen_urls)
                      THEN UNCHANGED <<seen_urls, country_results, scrape_files>>
                      ELSE LET kept == Append(country_results, result) IN
                           /\ seen_urls' = seen_urls \cup {result.eu_startups_url}
                           /\ country_results' = kept
                           /\ scrape_files' =
                                IF SaveDue(kept, companies)
                                THEN save_interim_scrape_results(scrape_files, country, kept)
                                ELSE scrape_files
    /\ UNCHANGED <<crawl_files, max_workers, spc, file_idx, companies,
                   all_companies, finished, websites_csv>>
    /\ UNCHANGED notB

\* every future has been handled: the second filter, then the next file
EndCountry ==
    /\ spc = "pool"
    /\ in_flight = {}
    /\ next_task > Len(companies)
    /\ all_companies' = all_companies \o UniqueByUrl(country_results, {})
    /\ finished' = finished \cup {Countries[file_idx]}
    /\ file_idx' = file_idx + 1
    /\ spc' = "files"
    /\ UNCHANGED <<crawl_files, max_workers, companies, seen_urls,
                   country_results, next_task, in_flight, processed_count,
                   raised, scrape_files, returned, websites_csv>>
    /\ UNCHANGED notB

\* no file is left: return all_companies
ReturnScrape ==
    /\ spc = "files"
    /\ file_idx > Len(Countries)
    /\ spc' = "done"
    /\ UNCHANGED <<crawl_files, max_workers, file_idx, companies, seen_urls,
                   country_results, all_companies, next_task, in_flight,
                   processed_count, raised, scrape_files, returned, finished, websites_csv>>
    /\ UNCHANGED notB

\* the script's entry point after process_companies_from_files has returned:
\* if companies: save_all_results(companies)
SaveAllResults ==
    /\ spc = "done"
    /\ all_companies # <<>>
    /\ websites_csv' = save_all_results(all_companies, {})
    /\ spc' = "saved"
    /\ UNCHANGED <<crawl_files, max_workers, file_idx, companies, seen_urls,
                   country_results, all_companies, next_task, in_flight,
                   processed_count, raised, scrape_files, returned, finished>>
    /\ UNCHANGED notB

NextB ==
    \/ StartScrape
    \/ BeginCountry
    \/ \E i \in in_flight, outcome \in {"ok", "raise"} : FutureDone(i, outcome)
    \/ EndCountry
    \/ ReturnScrape
    \/ SaveAllResults

(***************************************************************************)
(* Part B: properties                                                      *)
(***************************************************************************)
RowsWithEuUrl(rows, u) == Count(rows, LAMBDA r : r.eu_startups_url = u)

\* C2: once process_companies_from_files has finished a country, the
\* country's scrape_results CSV has no two rows with the same
\* eu_startups_url.
C2_NoDuplicateRowsInCountryFile ==
    \A c \in finished :
        \A u \in {r.eu_startups_url : r \in Range(scrape_files[c].rows)} :
            RowsWithEuUrl(scrape_files[c].rows, u) = 1

\* C3: once process_companies_from_files has finished a country, every
\* company URL for which a worker returned a result has a row in the
\* country's scrape_results CSV.
C3_EveryResultPersisted ==
    \A c \in finished :
        \A u \in returned[c] : RowsWithEuUrl(scrape_files[c].rows, u) >= 1

\* C19: in the stages that fan work out to a worker pool, the thread pool of
\* process_companies_from_files and the asyncio workers of
\* process_consolidated_csv, the number of workers started lies in [1, 20]
\* for every value the operator gives, also 0, negative and above 20.
C19_WorkersWithinRange ==
    /\ cpc = "running" => workers \in 1..WorkerCap
    /\ spc = "pool" => max_workers \in 1..WorkerCap
    /\ spc # "raised"

\* C23: the file written by save_all_results holds exactly one row for every
\* distinct non-empty eu_startups_url of the companies passed in and no two
\* rows with the same eu_startups_url; the list passed in, built with one
\* seen-set across the countries, holds a URL listed under two countries once.
C23_OneRowPerEuUrl ==
    spc = "saved" =>
        LET passed == {c.eu_startups_url : c \in Range(all_companies)} \ {NoLink}
        IN  /\ \A u \in passed : RowsWithEuUrl(websites_csv, u) = 1
            /\ \A i \in 1..Len(websites_csv) :
                   websites_csv[i].eu_startups_url \in passed
            /\ \A u \in passed : RowsWithEuUrl(all_companies, u) = 1

\* the final file of a run in which both countries listed the same company
\* and both results came back
C23_Witness ==
    /\ spc = "saved"
    /\ \E u \in Links :
           /\ \A c \in CountrySet : u \in returned[c]
           /\ RowsWithEuUrl(websites_csv, u) = 1

(***************************************************************************)
(* Part C.  eu_startups_integration.py: extract_emails_from_websites       *)
(***************************************************************************)
MaxResolved == 3       \* companies passed to extract_emails_from_websites

EuUrls == {"eu/1", "eu/2"}

Resolved(eu, u) == [eu_startups_url |-> eu, website_url |-> u]

ResolvedLists ==
    SeqsUpTo({Resolved(eu, u) : eu \in EuUrls, u \in WebsiteUrls \cup {EmptyUrl}},
             MaxResolved)

\* dedup_key = f"{url}|{eu_url}"
DedupKey(c) == <<c.website_url, c.eu_startups_url>>

\* the deduplication loop: skip empty website_urls, keep the first company
\* of each key
RECURSIVE Dedup(_, _, _)
Dedup(cs, keys, kept) ==
    IF cs = <<>> THEN [keys |-> keys, kept |-> kept]
    ELSE LET c == Head(cs) IN
         IF c.website_url = EmptyUrl THEN Dedup(Tail(cs), keys, kept)
         ELSE IF DedupKey(c) \in keys THEN Dedup(Tail(cs), keys, kept)
         ELSE Dedup(Tail(cs), keys \cup {DedupKey(c)}, Append(kept, c))

ContactRow(c, e) ==
    [eu_startups_url |-> c.eu_startups_url, website_url |-> c.website_url,
     emails |-> e]

RestC ==
    /\ xpc = "idle"
    /\ unique_companies = <<>>
    /\ dedup_keys = {}
    /\ loop_i = 1
    /\ contact_csv = <<>>
    /\ scanned = <<>>

InitC == resolved \in ResolvedLists /\ RestC

QuietC == resolved = <<>> /\ RestC

\* deduplicate, then open the output with 'w' and write the header
StartExtract ==
    /\ xpc = "idle"
    /\ LET r == Dedup(resolved, {}, <<>>) IN
           /\ unique_companies' = r.kept
           /\ dedup_keys' = r.keys
    /\ loop_i' = 1
    /\ contact_csv' = <<>>
    /\ xpc' = "loop"
    /\ UNCHANGED <<resolved, scanned>>
    /\ UNCHANGED notC

\* one pass of the loop over unique_companies
ProcessUnique(outcome) ==
    /\ xpc = "loop"
    /\ loop_i <= Len(unique_companies)
    /\ LET c == unique_companies[loop_i] IN
           IF c.website_url = EmptyUrl
           THEN /\ contact_csv' = Append(contact_csv, ContactRow(c, ""))
                /\ UNCHANGED scanned
           ELSE /\ scanned' = Append(scanned, c.website_url)
                /\ contact_csv' = Append(contact_csv, ContactRow(c, EmailsField(outcome)))
    /\ loop_i' = loop_i + 1
    /\ UNCHANGED <<resolved, xpc, unique_companies, dedup_keys>>
    /\ UNCHANGED notC

\* the loop is over: the file is closed and the statistics are printed; the
\* percentage divides by len(unique_companies)
FinishExtract ==
    /\ xpc = "loop"
    /\ loop_i > Len(unique_companies)
    /\ xpc' = IF Len(unique_companies) = 0 THEN "raised" ELSE "done"
    /\ UNCHANGED <<resolved, unique_companies, dedup_keys, loop_i, contact_csv,
                   scanned>>
    /\ UNCHANGED notC

NextC ==
    \/ StartExtract
    \/ \E outcome \in Outcomes : ProcessUnique(outcome)
    \/ FinishExtract

(***************************************************************************)
(* Part C: properties                                                      *)
(***************************************************************************)
\* C6: extract_emails_from_websites processes only companies with a
\* non-empty website_url, at most one company per distinct website_url, and
\* writes at most one output row per distinct website_url.
C6_OnePerWebsiteUrl ==
    xpc \in {"loop", "done"} =>
        /\ \A i \in 1..Len(unique_companies) :
              unique_companies[i].website_url # EmptyUrl
        /\ \A u \in WebsiteUrls :
              /\ Count(scanned, LAMBDA v : v = u) <= 1
              /\ RowsWithUrl(contact_csv, u) <= 1

(***************************************************************************)
(* Part D.  eu_startups_crawler.py: extract_company_links                  *)
(***************************************************************************)
NumPages == 3          \* pages of the directory site
MaxFetches == 4        \* fetches of one crawl the model follows

Pages == 1..NumPages
Hosts == {"eu-startups.com"}

Url(h, p) == [host |-> h, path |-> p]
Urls == {Url(h, p) : h \in Hosts, p \in Pages}
NoUrl == Url("", 0)

\* a listing excerpt: link 0 stands for a listing without title link or href
Listing(n, l) == [name |-> n, link |-> l]
GoodListing(p) == Listing(p, p)
BadListing == Listing(0, 0)

\* the href of the anchor in span.next: none, empty, absolute ("http..."),
\* root-relative ("/...") or relative to the current page
NoNext == [form |-> "none", host |-> "", to |-> 0]
EmptyHref == [form |-> "empty", host |-> "", to |-> 0]
Hrefs ==
    {NoNext, EmptyHref}
    \cup {[form |-> "abs", host |-> h, to |-> q] : h \in Hosts, q \in Pages}
    \cup {[form |-> f, host |-> "", to |-> q] : f \in {"root", "rel"}, q \in Pages}

Page(ls, h) == [known |-> TRUE, listings |-> ls, next |-> h]
Unknown == [known |-> FALSE, listings |-> <<>>, next |-> NoNext]

\* what the page at u can turn out to hold
Contents(u) ==
    {Page(ls, h) :
        ls \in {<<>>, <<GoodListing(u.path)>>, <<BadListing, GoodListing(u.path)>>},
        h \in Hrefs}

\* the loop over the listings: a company for every listing with a link
RECURSIVE PageCompanies(_)
PageCompanies(ls) ==
    IF ls = <<>> THEN <<>>
    ELSE IF Head(ls).link # 0
         THEN <<[name |-> Head(ls).name, link |-> Head(ls).link]>> \o PageCompanies(Tail(ls))
         ELSE PageCompanies(Tail(ls))

\* a list that holds the companies of the latest page only
KeepPageOnly(sofar, ls) == PageCompanies(ls)

\* companies.append(...) for every company of the page
AddCompanies(sofar, ls) == sofar \o PageCompanies(ls)

\* the absolute URL of the next page
Resolve(href, country, current) ==
    CASE href.form = "abs"  -> Url(href.host, href.to)
      [] href.form = "root" -> Url(country.host, href.to)
      [] href.form = "rel"  -> Url(current.host, href.to)

\* max_pages: int = 100
DefaultMaxPages == 100

\* the limits a caller passes
MaxPagesArgs == {1, 2, DefaultMaxPages}

RestD ==
    /\ lpc = "idle"
    /\ country_url = NoUrl
    /\ current_url = NoUrl
    /\ page_num = 1
    /\ total_pages_found = 0
    /\ listed = <<>>
    /\ fetched = <<>>
    /\ fetch_failed = FALSE
    /\ max_pages = DefaultMaxPages

InitD == site = [u \in Urls |-> Unknown] /\ RestD

QuietD == InitD

\* extract_company_links(country_url, max_pages): the assignments before the
\* loop
EnterExtract(u, n) ==
    /\ lpc = "idle"
    /\ country_url' = u
    /\ current_url' = u
    /\ page_num' = 1
    /\ total_pages_found' = 0
    /\ listed' = <<>>
    /\ fetched' = <<>>
    /\ fetch_failed' = FALSE
    /\ max_pages' = n
    /\ lpc' = "fetch"
    /\ UNCHANGED site

\* a call that leaves max_pages at its default
CallExtract(u) == EnterExtract(u, DefaultMaxPages) /\ UNCHANGED notD

\* a call that passes max_pages
CallExtractLimit(u, n) == EnterExtract(u, n) /\ UNCHANGED notD

\* one pass of the while loop: fetch current_url, collect the companies,
\* find the next page; a break returns the list.  A page served before is
\* served again as it was.
FetchPage(ok, content) ==
    /\ lpc = "fetch"
    /\ Len(fetched) < MaxFetches
    /\ content \in (IF ~ok THEN {Unknown}
                    ELSE IF site[current_url].known THEN {site[current_url]}
                    ELSE Contents(current_url))
    /\ fetched' = Append(fetched, current_url)
    /\ IF ~ok
       THEN \* html == "": "Failed to fetch page"
            /\ fetch_failed' = TRUE
            /\ lpc' = "crawled"
            /\ UNCHANGED <<site, current_url, page_num, total_pages_found, listed>>
       ELSE /\ site' = [site EXCEPT ![current_url] = content]
            /\ UNCHANGED fetch_failed
            /\ IF content.listings = <<>>
               THEN \* "No listings found"
                    /\ lpc' = "crawled"
                    /\ UNCHANGED <<current_url, page_num, total_pages_found, listed>>
               ELSE /\ listed' = AddCompanies(listed, content.listings)
                    /\ IF content.next.form \in {"none", "empty"}
                       THEN \* "No more pages available" / "Next page URL is empty"
                            /\ lpc' = "crawled"
                            /\ UNCHANGED <<current_url, page_num, total_pages_found>>
                       ELSE /\ current_url' = Resolve(content.next, country_url, current_url)
                            /\ page_num' = page_num + 1
                            /\ total_pages_found' = total_pages_found + 1
                            /\ UNCHANGED lpc
    /\ UNCHANGED <<country_url, max_pages>>
    /\ UNCHANGED notD

NextD ==
    \/ \E u \in Urls : CallExtract(u)
    \/ \E ok \in BOOLEAN, content \in {Unknown} \cup UNION {Contents(u) : u \in Urls} :
          FetchPage(ok, content)

(***************************************************************************)
(* Part D: properties                                                      *)
(***************************************************************************)
\* the pages from u on, following the next-page links, up to the first page
\* without one (n bounds the length)
RECURSIVE Chain(_, _)
Chain(u, n) ==
    IF n = 0 \/ u \notin Urls \/ ~site[u].known THEN <<>>
    ELSE IF site[u].next.form \in {"abs", "root", "rel"}
         THEN <<u>> \o Chain(Resolve(site[u].next, country_url, u), n - 1)
         ELSE <<u>>

\* the items of the pages of a chain, in page order
RECURSIVE ItemsOf(_)
ItemsOf(us) ==
    IF us = <<>> THEN <<>>
    ELSE SelectSeq(site[Head(us)].listings, LAMBDA l : l.link # 0) \o ItemsOf(Tail(us))

\* every page fetched was served, held listings, and the last one is the
\* first without a next-page link
CleanPagination ==
    /\ lpc = "crawled"
    /\ ~fetch_failed
    /\ fetched # <<>>
    /\ \A i \in 1..Len(fetched) : site[fetched[i]].listings # <<>>
    /\ site[fetched[Len(fetched)]].next = NoNext

\* C8: pagination termination.  When all pages are served and hold listings
\* and the Nth page is the first without a next-page link,
\* extract_company_links fetches exactly the pages 1..N and returns their
\* items in page order, none missing.
C8_PaginationTermination ==
    CleanPagination =>
        /\ fetched = Chain(country_url, MaxFetches + 1)
        /\ listed = ItemsOf(fetched)
        /\ total_pages_found = Len(fetched) - 1

\* C8 witness: a crawl over three pages, one with a listing that is skipped
C8_Witness ==
    /\ CleanPagination
    /\ Len(fetched) = 3
    /\ \E i \in 1..Len(fetched) : Len(site[fetched[i]].listings) = 2
    /\ Len(listed) = 3

\* C9: cycle guard.  Within one crawl extract_company_links never fetches
\* the same URL twice: a next-page URL that equals the current or an already
\* visited URL ends the pagination.
C9_NoUrlFetchedTwice ==
    \A i, j \in 1..Len(fetched) : i # j => fetched[i] # fetched[j]

\* C30: one call of extract_company_links fetches at most max_pages pages,
\* 100 unless the caller passes another limit, also on a directory where
\* every page has listings and a next link.
C30_AtMostMaxPagesFetched ==
    lpc # "idle" => Len(fetched) <= max_pages

(***************************************************************************)
(* Part E.  eu_startups_integration.py: process_eu_startups, and           *)
(* eu_startups_crawler.py: crawl_all_countries, save_interim_results       *)
(***************************************************************************)
\* country labels and filters are strings, kept as sequences of characters
Austria == <<"A", "t">>
Belgium == <<"B", "e">>
Labels == {Austria, Belgium}
NoFilter == <<>>
Filters == {NoFilter, <<"a", "t">>, Belgium, <<"N", "a">>}

AlphaNum == {"A", "B", "N", "a", "b", "n", "t", "e"}

\* str.lower()
LowerChar(ch) ==
    CASE ch = "A" -> "a"
      [] ch = "B" -> "b"
      [] ch = "N" -> "n"
      [] OTHER -> ch
Lower(str) == [i \in DOMAIN str |-> LowerChar(str[i])]

\* re.sub(r'[^a-zA-Z0-9]', '_', country)
SafeCountry(country) ==
    [i \in DOMAIN country |-> IF country[i] \in AlphaNum THEN country[i] ELSE "_"]

\* load_country_links(): the rows of startups_data.csv
LoadCountryLinks ==
    <<[link |-> Url("eu-startups.com", 1), country |-> Austria],
      [link |-> Url("eu-startups.com", 2), country |-> Belgium]>>

CheckpointNames == {SafeCountry(l) : l \in Labels}
NoCheckpoint == [exists |-> FALSE, lines |-> <<>>]
OldCompany == [name |-> NumPages + 1, link |-> NumPages + 1]
CheckpointStates ==
    {NoCheckpoint,
     [exists |-> TRUE, lines |-> <<>>],
     [exists |-> TRUE, lines |-> <<OldCompany>>]}

\* the lines of a checkpoint that split into exactly two parts
LoadCheckpoint(file) ==
    SelectSeq(file.lines, LAMBDA l : l.name # 0 /\ l.link # 0)

\* a mutation of AlreadyCrawled: the size of the file is not looked at
CheckpointExists(country) == checkpoints[SafeCountry(country)].exists

\* os.path.exists(country_file) and os.path.getsize(country_file) > 0
AlreadyCrawled(country) ==
    /\ checkpoints[SafeCountry(country)].exists
    /\ checkpoints[SafeCountry(country)].lines # <<>>

\* the filter of crawl_all_countries
FilterLinks(links, filter) ==
    IF filter # <<>>
    THEN SelectSeq(links, LAMBDA cl : Lower(cl.country) = Lower(filter))
    ELSE links

\* the directory as the listing stage finds it: every page is known, holds
\* its listing or none, and links to the following page or to none
KnownSites ==
    {[u \in Urls |->
        Page(IF u.path \in full THEN <<GoodListing(u.path)>> ELSE <<>>,
             IF u.path \in linked
             THEN [form |-> "root", host |-> "", to |-> u.path + 1]
             ELSE NoNext)] :
     full \in SUBSET Pages, linked \in SUBSET (Pages \ {NumPages})}

NoData == [set |-> FALSE, companies |-> <<>>]

RestE ==
    /\ ppc = "idle"
    /\ recrawl = FALSE
    /\ filter_country = NoFilter
    /\ country_links = <<>>
    /\ link_idx = 1
    /\ countries_data = [l \in Labels |-> NoData]
    /\ listing_log = [l \in Labels |-> <<>>]
    /\ stages = <<>>
    /\ final_written = FALSE

InitE == checkpoints \in [CheckpointNames -> CheckpointStates] /\ checkpoints0 = checkpoints /\ RestE

QuietE == checkpoints = [n \in CheckpointNames |-> NoCheckpoint] /\ checkpoints0 = checkpoints /\ RestE

\* process_eu_startups(recrawl, max_workers, filter_country) up to the first
\* stage; crawl_all_countries returns {} at once when the filter matches no
\* country
StartPipeline(r, f) ==
    /\ ppc = "idle"
    /\ recrawl' = r
    /\ filter_country' = f
    /\ link_idx' = 1
    /\ IF r
       THEN /\ country_links' = FilterLinks(LoadCountryLinks, f)
            /\ IF country_links' = <<>>
               THEN /\ ppc' = "resolving"
                    /\ stages' = <<"listing", "resolving">>
               ELSE /\ ppc' = "listing"
                    /\ stages' = <<"listing">>
       ELSE /\ country_links' = <<>>
            /\ ppc' = "resolving"
            /\ stages' = <<"resolving">>
    /\ UNCHANGED <<checkpoints, countries_data, listing_log, final_written>>
    /\ UNCHANGED <<checkpoints0, varsD, notE>>

\* the head of the for loop: a country with a non-empty checkpoint is
\* skipped and loaded from the file, any other is crawled
CountryStep ==
    /\ ppc = "listing"
    /\ lpc = "idle"
    /\ link_idx <= Len(country_links)
    /\ LET cl == country_links[link_idx]
       IN  IF AlreadyCrawled(cl.country)
           THEN /\ countries_data' =
                       [countries_data EXCEPT ![cl.country] =
                           [set |-> TRUE,
                            companies |-> LoadCheckpoint(checkpoints[SafeCountry(cl.country)])]]
                /\ link_idx' = link_idx + 1
                /\ UNCHANGED varsD
           ELSE /\ EnterExtract(cl.link, DefaultMaxPages)
                /\ UNCHANGED <<countries_data, link_idx>>
    /\ UNCHANGED <<ppc, recrawl, filter_country, country_links, checkpoints,
                   listing_log, stages, final_written>>
    /\ UNCHANGED <<checkpoints0, notE>>

\* extract_company_links returned: countries_data[country] = companies and
\* save_interim_results(country, companies), which rewrites the checkpoint
SaveCountry ==
    /\ ppc = "listing"
    /\ lpc = "crawled"
    /\ LET cl == country_links[link_idx]
       IN  /\ countries_data' =
                  [countries_data EXCEPT ![cl.country] =
                      [set |-> TRUE, companies |-> listed]]
           /\ checkpoints' =
                  [checkpoints EXCEPT ![SafeCountry(cl.country)] =
                      [exists |-> TRUE, lines |-> listed]]
           /\ listing_log' = [listing_log EXCEPT ![cl.country] = fetched]
    /\ link_idx' = link_idx + 1
    /\ lpc' = "idle"
    /\ UNCHANGED <<site, country_url, current_url, page_num, total_pages_found,
                   listed, fetched, fetch_failed, max_pages>>
    /\ UNCHANGED <<ppc, recrawl, filter_country, country_links, stages, final_written>>
    /\ UNCHANGED <<checkpoints0, notE>>

\* the for loop is over: crawl_all_countries returns, step 2 begins
EndListing ==
    /\ ppc = "listing"
    /\ lpc = "idle"
    /\ link_idx > Len(country_links)
    /\ ppc' = "resolving"
    /\ stages' = Append(stages, "resolving")
    /\ UNCHANGED <<recrawl, filter_country, country_links, link_idx, checkpoints,
                   countries_data, listing_log, final_written>>
    /\ UNCHANGED <<checkpoints0, varsD, notE>>

\* the checkpoint files process_companies_from_files reads
FilesToResolve ==
    {l \in Labels :
        /\ checkpoints[SafeCountry(l)].exists
        /\ filter_country # <<>> => Lower(filter_country) = Lower(l)}

\* a mutation of CompaniesInFiles: a company is there whatever the files are
CompaniesAssumed == {OldCompany}

\* the companies process_companies_from_files reads from the files; none
\* when crawl_results is missing or holds no file
CompaniesInFiles ==
    UNION {Range(LoadCheckpoint(checkpoints[SafeCountry(l)])) : l \in FilesToResolve}

\* a mutation of ResolveStage: step 3 follows whatever step 2 returned
ResolveThenExtract(any) ==
    /\ ppc = "resolving"
    /\ ppc' = "extracting"
    /\ stages' = Append(stages, "extracting")
    /\ UNCHANGED <<recrawl, filter_country, country_links, link_idx, checkpoints,
                   countries_data, listing_log, final_written>>
    /\ UNCHANGED <<checkpoints0, varsD, notE>>

\* step 2: process_companies_from_files returns the companies it resolved,
\* none when no file holds a company or every task raised
ResolveStage(any) ==
    /\ ppc = "resolving"
    /\ any => CompaniesInFiles # {}
    /\ IF any
       THEN /\ ppc' = "extracting"
            /\ stages' = Append(stages, "extracting")
       ELSE /\ ppc' = "nocompanies"
            /\ UNCHANGED stages
    /\ UNCHANGED <<recrawl, filter_country, country_links, link_idx, checkpoints,
                   countries_data, listing_log, final_written>>
    /\ UNCHANGED <<checkpoints0, varsD, notE>>

\* step 3: extract_emails_from_websites writes the final output file
ExtractStage ==
    /\ ppc = "extracting"
    /\ ppc' = "done"
    /\ final_written' = TRUE
    /\ UNCHANGED <<recrawl, filter_country, country_links, link_idx, checkpoints,
                   countries_data, listing_log, stages>>
    /\ UNCHANGED <<checkpoints0, varsD, notE>>

NextE ==
    \/ \E r \in BOOLEAN, f \in Filters : StartPipeline(r, f)
    \/ CountryStep
    \/ \E ok \in BOOLEAN, content \in {Unknown} \cup UNION {Contents(u) : u \in Urls} :
          FetchPage(ok, content)
    \/ SaveCountry
    \/ EndListing
    \/ \E any \in BOOLEAN : ResolveStage(any)
    \/ ExtractStage

(***************************************************************************)
(* Part E: properties                                                      *)
(***************************************************************************)
\* the countries the run was asked to process
SelectedCountries ==
    {l \in Labels : filter_country # <<>> => Lower(filter_country) = Lower(l)}

\* C10: force recrawl.  When process_eu_startups is called with recrawl=True,
\* by the end of the listing stage the listing pages of every selected
\* country were fetched again in this run, also for a country with a
\* non-empty checkpoint file.
C10_ForceRecrawl ==
    (recrawl /\ ppc \in {"resolving", "extracting", "done", "nocompanies"}) =>
        \A l \in SelectedCountries : listing_log[l] # <<>>

StageOrder ==
    IF recrawl THEN <<"listing", "resolving", "extracting">>
    ELSE <<"resolving", "extracting">>

\* C29: process_eu_startups enters its stages in the order listing (when
\* recrawl is asked for), resolving, extracting, each at most once; it enters
\* extracting only when resolving had companies to return, and a run whose
\* resolving returned none ends without the final output file.
C29_StagesInOrder ==
    /\ IsPrefix(stages, StageOrder)
    /\ ppc \in {"extracting", "done"} => CompaniesInFiles # {}
    /\ ppc = "nocompanies" =>
           /\ \A i \in 1..Len(stages) : stages[i] # "extracting"
           /\ ~final_written
    /\ final_written => ppc = "done" /\ stages = StageOrder

\* a run with recrawl that went through the three stages
C29_Witness ==
    /\ ppc = "done"
    /\ recrawl
    /\ stages = <<"listing", "resolving", "extracting">>
    /\ final_written
    /\ \E l \in Labels : listing_log[l] # <<>>

\* a run with recrawl whose resolving returned no companies although the
\* listing found some
C29_WitnessNoCompanies ==
    /\ ppc = "nocompanies"
    /\ stages = <<"listing", "resolving">>
    /\ CompaniesInFiles # {}

\* crawl_results is missing or empty
NoCrawlResults == \A n \in CheckpointNames : ~checkpoints[n].exists

PipelineEndsBeforeExtraction ==
    (ppc \in {"extracting", "done", "nocompanies"} /\ NoCrawlResults) =>
        /\ ppc = "nocompanies"
        /\ \A i \in 1..Len(stages) : stages[i] # "extracting"
        /\ ~final_written

\* C26: a setup failure ends the run before any work.  The step of
\* process_consolidated_csv that fails to read the input CSV leaves the
\* output file, the queue and the workers as they were, and nothing of that
\* run happens after it; process_eu_startups, when step 2 finds no
\* crawl_results, ends without entering the email-extraction stage.
C26_SetupFailureAbortsBeforeWork ==
    [][/\ (cpc' = "unreadable" /\ runs' # runs) =>
              UNCHANGED <<output_exists, output_csv, mode, queue, workers,
                          unstarted, busy, stats, written>>
       /\ (cpc = "unreadable" /\ runs' = runs) => UNCHANGED varsA
       /\ PipelineEndsBeforeExtraction']_vars

\* a run that could not read its input after an earlier run had written the
\* output file, and a pipeline run that ended for want of crawl results
C26_Witness ==
    /\ cpc = "unreadable"
    /\ output_exists
    /\ output_csv # <<>>
    /\ ppc = "nocompanies"
    /\ NoCrawlResults

\* C37: a checkpoint that makes crawl_all_countries skip a country holds the
\* items of all its listing pages: when the crawl of a country was cut short
\* by a failed fetch, the checkpoint written for it is none that makes a
\* later run skip the country.
C37_NoCheckpointAfterCutCrawl ==
    (ppc = "listing" /\ lpc = "idle" /\ link_idx > 1) =>
        LET c == country_links[link_idx - 1].country
        IN  (listing_log[c] # <<>> /\ fetch_failed) => ~AlreadyCrawled(c)

(***************************************************************************)
(* Part F.  duplicate_remover.py: consolidate_csv_files                    *)
(***************************************************************************)
MaxRows == 2           \* rows of the country files taken together

SiteRow(n, c, e, u) ==
    [name |-> n, country |-> c, eu_startups_url |-> e, website_url |-> u]

SiteRows ==
    {SiteRow(n, c, e, u) :
        n \in {"", "Acme"}, c \in {"", "Sweden"}, e \in {"", "eu/1"},
        u \in {""} \cup WebsiteUrls}

\* the order of Python's string comparison on the strings in use
StrRank(str) ==
    CASE str = ""       -> 0
      [] str = "Acme"   -> 1
      [] str = "Sweden" -> 2

\* the sort key (country, name)
KeyLess(a, b) ==
    \/ StrRank(a.country) < StrRank(b.country)
    \/ a.country = b.country /\ StrRank(a.name) < StrRank(b.name)

\* list.sort(key=...): stable
RECURSIVE InsertSorted(_, _)
InsertSorted(sorted, r) ==
    IF sorted = <<>> THEN <<r>>
    ELSE IF KeyLess(r, Head(sorted)) THEN <<r>> \o sorted
    ELSE <<Head(sorted)>> \o InsertSorted(Tail(sorted), r)

RECURSIVE SortRows(_, _)
SortRows(rows, sorted) ==
    IF rows = <<>> THEN sorted
    ELSE SortRows(Tail(rows), InsertSorted(sorted, Head(rows)))

\* a mutation of KeyIndex: no key is ever found
KeyNeverFound(rows, u) == 0

\* index of the entry of the dictionary with key u, 0 when there is none
KeyIndex(rows, u) ==
    IF \E i \in 1..Len(rows) : rows[i].website_url = u
    THEN CHOOSE i \in 1..Len(rows) : rows[i].website_url = u
    ELSE 0

\* the test that lets a duplicate take the place of the kept row
MoreInformation(existing, company) ==
    \/ existing.name = "" /\ company.name # ""
    \/ existing.eu_startups_url = "" /\ company.eu_startups_url # ""

RestF ==
    /\ dpc = "idle"
    /\ row_idx = 1
    /\ unique_by_url = <<>>
    /\ replaced = {}
    /\ consolidated_csv = <<>>

InitF == country_rows \in SeqsUpTo(SiteRows, MaxRows) /\ RestF

QuietF == country_rows = <<>> /\ RestF

\* consolidate_csv_files up to the loop; it returns when there is no file
StartConsolidate ==
    /\ dpc = "idle"
    /\ country_rows # <<>>
    /\ dpc' = "merging"
    /\ UNCHANGED <<country_rows, row_idx, unique_by_url, replaced, consolidated_csv>>
    /\ UNCHANGED notF

\* one pass of the loop over the companies of the files
MergeRow ==
    /\ dpc = "merging"
    /\ row_idx <= Len(country_rows)
    /\ LET company == country_rows[row_idx]
           k == KeyIndex(unique_by_url, company.website_url)
       IN  IF company.website_url = ""
           THEN UNCHANGED <<unique_by_url, replaced>>
           ELSE IF k # 0
                THEN IF MoreInformation(unique_by_url[k], company)
                     THEN /\ unique_by_url' = [unique_by_url EXCEPT ![k] = company]
                          /\ replaced' = replaced \cup {<<unique_by_url[k], company>>}
                     ELSE UNCHANGED <<unique_by_url, replaced>>
                ELSE /\ unique_by_url' = Append(unique_by_url, company)
                     /\ UNCHANGED replaced
    /\ row_idx' = row_idx + 1
    /\ UNCHANGED <<country_rows, dpc, consolidated_csv>>
    /\ UNCHANGED notF

\* the rows are sorted by country and name and written
WriteConsolidated ==
    /\ dpc = "merging"
    /\ row_idx > Len(country_rows)
    /\ consolidated_csv' = SortRows(unique_by_url, <<>>)
    /\ dpc' = "done"
    /\ UNCHANGED <<country_rows, row_idx, unique_by_url, replaced>>
    /\ UNCHANGED notF

NextF ==
    \/ StartConsolidate
    \/ MergeRow
    \/ WriteConsolidated

(***************************************************************************)
(* Part F: properties                                                      *)
(***************************************************************************)
NonEmptyFields(r) ==
    Cardinality({f \in {"name", "country", "eu_startups_url", "website_url"} : r[f] # ""})

\* C11: merging.  Of the rows with one website_url the final table keeps the
\* one with more non-empty fields: a row with fewer or equally many non-empty
\* fields never takes the place of the row already kept.
C11_MoreCompleteRowWins ==
    /\ \A p \in replaced : NonEmptyFields(p[2]) > NonEmptyFields(p[1])
    /\ dpc = "done" =>
          \A i \in 1..Len(consolidated_csv), j \in 1..Len(country_rows) :
              country_rows[j].website_url = consolidated_csv[i].website_url =>
                  NonEmptyFields(country_rows[j]) <= NonEmptyFields(consolidated_csv[i])

\* C24: the consolidated file has no two rows with the same website_url, has
\* a row for every distinct non-empty website_url of the per-country files,
\* and has no row with an empty website_url.
C24_ConsolidatedUniqueAndComplete ==
    dpc = "done" =>
        /\ \A i, j \in 1..Len(consolidated_csv) :
               consolidated_csv[i].website_url = consolidated_csv[j].website_url
                   => i = j
        /\ \A k \in 1..Len(country_rows) :
               country_rows[k].website_url # "" =>
                   \E i \in 1..Len(consolidated_csv) :
                       consolidated_csv[i].website_url = country_rows[k].website_url
        /\ \A i \in 1..Len(consolidated_csv) :
               consolidated_csv[i].website_url # ""

\* a consolidation of files in which one website occurs in two rows
C24_Witness ==
    /\ dpc = "done"
    /\ Len(country_rows) >= 2
    /\ country_rows[1].website_url = country_rows[2].website_url
    /\ country_rows[1] # country_rows[2]
    /\ Len(consolidated_csv) = 1

\* a consolidation of files with a row that has no website
C24_WitnessEmptyUrl ==
    /\ dpc = "done"
    /\ \E k \in 1..Len(country_rows) : country_rows[k].website_url = ""
    /\ Len(consolidated_csv) = 1

(***************************************************************************)
(* Part G.  find_contact_email.py: is_valid_email,                         *)
(* extract_emails_from_text, scan_page_for_emails                          *)
(***************************************************************************)
MaxTokens == 2         \* email-like strings in one text

\* a string that may be taken for an email: local part, "@" or not, domain
\* name, top-level domain
Candidate(a, dom, t) == [at |-> a, domain |-> dom, tld |-> t]
GoodEmail == Candidate(TRUE, "acme", "com")           \* info@acme.com
ImageName == Candidate(TRUE, "2x", "png")             \* logo@2x.png
Placeholder == Candidate(TRUE, "example", "com")      \* user@example.com
ShortTld == Candidate(TRUE, "acme", "c")              \* info@acme.c
NoAt == Candidate(FALSE, "acme", "com")               \* acme.com
Candidates == {GoodEmail, ImageName, Placeholder, ShortTld, NoAt}

TokenSets == {T \in SUBSET Candidates : Cardinality(T) <= MaxTokens}

\* EXCLUDED_EXTENSIONS without the dot
ExcludedExtensions ==
    {"png", "jpg", "jpeg", "gif", "webp", "svg", "ico", "pdf", "doc", "docx"}

TldLen(t) == CASE t = "c" -> 1 [] t = "com" -> 3 [] t = "png" -> 3

\* is_valid_email: non-empty and not ending in an excluded extension
is_valid_email(email) == email.tld \notin ExcludedExtensions

\* EMAIL_REGEX: ...@... and a top-level domain of two letters or more
EmailRegexMatches(c) == c.at /\ TldLen(c.tld) >= 2

\* extract_emails_from_text
extract_emails_from_text(text) ==
    {c \in text : EmailRegexMatches(c) /\ is_valid_email(c)}

\* what one LLM run of crawler.arun gives
LlmKinds == {"json", "json_no_emails", "text", "empty", "timeout", "config_error", "error"}
LlmAnswer(k, es) == [kind |-> k, emails |-> es]
LlmAnswers ==
    {LlmAnswer(k, es) : k \in {"json", "text"}, es \in TokenSets}
    \cup {LlmAnswer(k, {}) : k \in LlmKinds \ {"json", "text"}}

\* one pass of the retry loop: the emails added and how the loop goes on
LlmAttempt(answer) ==
    CASE answer.kind = "json" ->
            [emails |-> {e \in answer.emails : is_valid_email(e)}, go |-> "done", config |-> FALSE]
      [] answer.kind = "text" ->
            [emails |-> extract_emails_from_text(answer.emails),
             go |-> IF extract_emails_from_text(answer.emails) # {} THEN "done" ELSE "retry",
             config |-> FALSE]
      [] answer.kind \in {"json_no_emails", "empty", "error"} ->
            [emails |-> {}, go |-> "retry", config |-> FALSE]
      [] answer.kind = "timeout" ->
            [emails |-> {}, go |-> "break", config |-> FALSE]
      [] answer.kind = "config_error" ->
            [emails |-> {}, go |-> "break", config |-> TRUE]

MaxRetries == 2

\* a mutation of AttemptsLeft: the loop has no limit of attempts
AttemptsNeverEnd(attempt) == TRUE

\* while attempt < max_retries
AttemptsLeft(attempt) == attempt < MaxRetries

\* the retry loop over the answers, from attempt number n + 1
RECURSIVE LlmLoop(_, _)
LlmLoop(answers, n) ==
    IF ~AttemptsLeft(n) \/ n >= Len(answers)
    THEN [emails |-> {}, calls |-> 0, config |-> FALSE]
    ELSE LET a == LlmAttempt(answers[n + 1])
             rest == IF a.go = "retry" THEN LlmLoop(answers, n + 1)
                     ELSE [emails |-> {}, calls |-> 0, config |-> FALSE]
         IN  [emails |-> a.emails \cup rest.emails,
              calls  |-> 1 + rest.calls,
              config |-> a.config \/ rest.config]

WebUrl(k, h, p) == [kind |-> k, host |-> h, path |-> p]

ScanArgs(u, f, t, as, llm) ==
    [url |-> u, fetch |-> f, text |-> t, answers |-> as, llm_strategy |-> llm]

ScanRet(r, es, n, c) ==
    [raised |-> r, emails |-> es, llm_calls |-> n, config_error |-> c]

\* scan_page_for_emails(crawler, url, session_id, llm_strategy); the emails
\* are kept as a set, the order of the list is not modelled
scan_page_for_emails(args) ==
    IF args.url.kind = "mailto"
    THEN ScanRet(FALSE, args.text, 0, FALSE)
    ELSE IF args.fetch = "raise"
    THEN ScanRet(TRUE, {}, 0, FALSE)
    ELSE LET regex == IF args.fetch = "ok" THEN extract_emails_from_text(args.text) ELSE {}
         IN  IF args.llm_strategy /\ regex = {}
             THEN LET llm == LlmLoop(args.answers, 0)
                  IN  ScanRet(FALSE, regex \cup llm.emails, llm.calls, llm.config)
             ELSE ScanRet(FALSE, regex, 0, FALSE)

NoScanArgs == ScanArgs(WebUrl("none", "", ""), "fail", {}, <<>>, FALSE)
NoScanRet == ScanRet(FALSE, {}, 0, FALSE)

\* the answers of the LLM runs of one scan: a second run is made only when
\* the first one asks for a retry
AnswerLists ==
    {<<a1>> : a1 \in {a \in LlmAnswers : LlmAttempt(a).go # "retry"}}
    \cup {<<a1, a2>> : a1 \in {a \in LlmAnswers : LlmAttempt(a).go = "retry"},
                        a2 \in LlmAnswers}

\* the calls of scan_page_for_emails that are tried
ScanCalls ==
    {ScanArgs(WebUrl("mailto", "", ""), "fail", t, <<>>, TRUE) :
        t \in {T \in TokenSets : Cardinality(T) = 1}}
    \cup {ScanArgs(WebUrl("http", "acme.com", "/"), "raise", {}, <<>>, llm) :
            llm \in BOOLEAN}
    \cup {ScanArgs(WebUrl("http", "acme.com", "/"), f, t, <<>>, FALSE) :
            f \in {"ok", "fail"}, t \in TokenSets}
    \cup {ScanArgs(WebUrl("http", "acme.com", "/"), f, t, as, TRUE) :
            f \in {"ok", "fail"}, t \in TokenSets, as \in AnswerLists}

InitG == scan_args \in ScanCalls /\ scan_ret = NoScanRet /\ scanpc = "idle"

QuietG == scan_args = NoScanArgs /\ scan_ret = NoScanRet /\ scanpc = "idle"

ScanPage ==
    /\ scanpc = "idle"
    /\ scan_ret' = scan_page_for_emails(scan_args)
    /\ scanpc' = "returned"
    /\ UNCHANGED scan_args
    /\ UNCHANGED notG

NextG == ScanPage

(***************************************************************************)
(* Part G: properties                                                      *)
(***************************************************************************)
PlaceholderDomains == {"example"}

\* the validity filter as the specification states it
PassesValidityFilter(e) ==
    /\ e.at
    /\ e.tld \notin ExcludedExtensions
    /\ e.domain \notin PlaceholderDomains
    /\ TldLen(e.tld) >= 2

\* C13: every email scan_page_for_emails returns for a crawled page, from the
\* regex pass or from the LLM pass, contains "@", does not end in an excluded
\* file extension, is not on a placeholder domain and has a top-level domain
\* of at least 2 characters.
C13_ReturnedEmailsAreValid ==
    (scanpc = "returned" /\ scan_args.url.kind = "http") =>
        \A e \in scan_ret.emails : PassesValidityFilter(e)

\* LLM runs that fail one after the other: more answers than the loop has
\* attempts, the first ones an exception or an empty result
FailingAnswerLists ==
    {<<LlmAnswer(k1, {}), LlmAnswer(k2, {}), a3>> :
        k1 \in {"error", "empty"}, k2 \in {"error", "json_no_emails"},
        a3 \in LlmAnswers}

ScanCallsFailing ==
    {ScanArgs(WebUrl("http", "acme.com", "/"), f, t, as, TRUE) :
        f \in {"ok", "fail"}, t \in TokenSets, as \in FailingAnswerLists}

InitRetry ==
    /\ scan_args \in ScanCalls \cup ScanCallsFailing
    /\ scan_ret = NoScanRet
    /\ scanpc = "idle"

\* what the regex pass of a scan finds
RegexEmails(args) ==
    IF args.fetch = "ok" THEN extract_emails_from_text(args.text) ELSE {}

LlmBounded ==
    (scanpc = "returned" /\ scan_args.url.kind = "http") =>
        /\ scan_ret.llm_calls <= MaxRetries
        /\ scan_ret.llm_calls > 0 =>
               /\ scan_args.llm_strategy
               /\ RegexEmails(scan_args) = {}
               /\ scan_args.answers[1].kind \in {"timeout", "json"} =>
                      scan_ret.llm_calls = 1

MaxAnchors == 4        \* anchors of the primary page
MaxContactPages == 3

HomePage == WebUrl("http", "acme.com", "/")
NoWebUrl == WebUrl("none", "", "")

\* the website_url arguments tried: none, not http(s), a site
WebsiteArgs == {WebUrl("empty", "", ""), WebUrl("ftp", "acme.com", "/"), HomePage}

\* startswith(('http://', 'https://'))
IsHttp(u) == u.kind \in {"http", "https"}

\* an <a href=...>text</a>: href is root-relative ("/..."), absolute,
\* relative or mailto; keyword says that the text or the href holds one of
\* CONTACT_KEYWORDS.  A mailto href is "mailto:" host "?" path, with the
\* address as host and the query as path (no "?" when the path is empty)
Anchor(k, h, p, kw) == [kind |-> k, host |-> h, path |-> p, keyword |-> kw]
Anchors ==
    {Anchor("root", "", "/contact", TRUE),
     Anchor("http", "other.com", "/contact", TRUE),
     Anchor("http", "acme.com", "/", TRUE),
     Anchor("rel", "", "contact.html", TRUE),
     Anchor("mailto", "logo@2x.png", "subject=hi", TRUE),
     Anchor("root", "", "/about", FALSE)}
AnchorLists == SeqsUpTo(Anchors, MaxAnchors)

\* the loop over the matches: the contact-related links, root-relative hrefs
\* made absolute with the scheme and host of the page
RECURSIVE ContactLinks(_, _)
ContactLinks(anchors, url) ==
    IF anchors = <<>> THEN <<>>
    ELSE LET a == Head(anchors)
             rest == ContactLinks(Tail(anchors), url)
         IN  IF a.kind = "mailto" THEN rest
             ELSE IF a.keyword
                  THEN IF a.kind = "root"
                       THEN <<WebUrl(url.kind, url.host, a.path)>> \o rest
                       ELSE <<WebUrl(a.kind, a.host, a.path)>> \o rest
                  ELSE rest

\* the addresses in use as candidates
AsCandidate(address) ==
    CASE address = "info@acme.com" -> GoodEmail
      [] address = "logo@2x.png"   -> ImageName

\* re.search(r'mailto:([^?]+)', href): the characters between "mailto:" and
\* the first "?", when there is at least one
MailtoGroup(a) == IF a.host # "" THEN {AsCandidate(a.host)} ELSE {}

\* a mutation of MailtoEmails: the addresses go through is_valid_email
MailtoEmailsFiltered(anchors) ==
    {e \in UNION {MailtoGroup(anchors[i]) :
                     i \in {j \in 1..Len(anchors) : anchors[j].kind = "mailto"}} :
        is_valid_email(e)}

\* emails_from_mailto: the addresses of the mailto anchors
MailtoEmails(anchors) ==
    UNION {MailtoGroup(anchors[i]) :
              i \in {j \in 1..Len(anchors) : anchors[j].kind = "mailto"}}

\* extract_links_from_page(crawler, url, session_id)
extract_links_from_page(url, fetch, anchors) ==
    IF fetch = "ok"
    THEN [raised |-> fetch = "raise", links |-> ContactLinks(anchors, url),
          emails_from_mailto |-> MailtoEmails(anchors)]
    ELSE [raised |-> fetch = "raise", links |-> <<>>, emails_from_mailto |-> {}]

\* how the scan of one page can go: arun raises; the regex finds an email;
\* the regex finds none and the LLM run meets a configuration error, finds an
\* email, or finds none in two runs
ScanOutcomes == {"raise", "regex", "config_error", "llm_found", "llm_nothing"}
PageScan(u, o) ==
    CASE o = "raise"        -> ScanArgs(u, "raise", {}, <<>>, TRUE)
      [] o = "regex"        -> ScanArgs(u, "ok", {GoodEmail}, <<>>, TRUE)
      [] o = "config_error" -> ScanArgs(u, "ok", {}, <<LlmAnswer("config_error", {})>>, TRUE)
      [] o = "llm_found"    -> ScanArgs(u, "ok", {}, <<LlmAnswer("json", {GoodEmail})>>, TRUE)
      [] o = "llm_nothing"  ->
            ScanArgs(u, "ok", {}, <<LlmAnswer("empty", {}), LlmAnswer("error", {})>>, TRUE)

\* the LLM runs so far: scans that reported a configuration error, and LLM
\* runs made by scans that began after the first such report
LogLlm(log, ret) ==
    [config_errors |-> log.config_errors + (IF ret.config_error THEN 1 ELSE 0),
     runs_after_error |-> log.runs_after_error
                          + (IF log.config_errors > 0 THEN ret.llm_calls ELSE 0)]

RestH ==
    /\ fpc = "idle"
    /\ website_url = NoWebUrl
    /\ emails = {}
    /\ links_to_check = <<>>
    /\ link_i = 1
    /\ checked_count = 0
    /\ scan_log = <<>>
    /\ llm_log = [config_errors |-> 0, runs_after_error |-> 0]
    /\ mailto_log = [anchors |-> {}, emails |-> {}]
    /\ find_ret = {}

InitH == RestH

QuietH == RestH

\* find_emails_for_company(website_url) up to the crawler: an empty or
\* non-http URL returns the empty list
CallFind(u) ==
    /\ fpc = "idle"
    /\ website_url' = u
    /\ fpc' = IF u.kind = "empty" \/ ~IsHttp(u) THEN "returned" ELSE "main"
    /\ UNCHANGED <<emails, links_to_check, link_i, checked_count, scan_log, llm_log,
                   find_ret, mailto_log>>
    /\ UNCHANGED notH

\* step 1: scan the main page; an exception ends the work on the website
ScanMain(o) ==
    /\ fpc = "main"
    /\ LET ret == scan_page_for_emails(PageScan(website_url, o))
       IN  /\ scan_log' = Append(scan_log, website_url)
           /\ llm_log' = LogLlm(llm_log, ret)
           /\ IF ret.raised
              THEN /\ fpc' = "returned"
                   /\ find_ret' = emails
                   /\ UNCHANGED emails
              ELSE /\ fpc' = "links"
                   /\ emails' = emails \cup ret.emails
                   /\ UNCHANGED find_ret
    /\ UNCHANGED <<website_url, links_to_check, link_i, checked_count, mailto_log>>
    /\ UNCHANGED notH

\* step 2: the contact links of the main page
ExtractLinks(fetch) ==
    /\ fpc = "links"
    /\ \E anchors \in AnchorLists :
          LET ret == extract_links_from_page(website_url, fetch, anchors)
          IN  IF ret.raised
              THEN /\ fpc' = "returned"
                   /\ find_ret' = emails
                   /\ UNCHANGED <<emails, links_to_check, mailto_log>>
              ELSE /\ fpc' = "loop"
                   /\ links_to_check' = ret.links
                   /\ emails' = emails \cup ret.emails_from_mailto
                   /\ mailto_log' =
                        [anchors |-> IF fetch = "ok"
                                     THEN {a \in Range(anchors) : a.kind = "mailto"}
                                     ELSE {},
                         emails |-> ret.emails_from_mailto]
                   /\ UNCHANGED find_ret
    /\ link_i' = 1
    /\ checked_count' = 0
    /\ UNCHANGED <<website_url, scan_log, llm_log>>
    /\ UNCHANGED notH

\* step 3: one pass of the loop over links_to_check, or its end
CheckLink(o) ==
    /\ fpc = "loop"
    /\ IF link_i > Len(links_to_check) \/ checked_count >= MaxContactPages
       THEN /\ fpc' = "returned"
            /\ find_ret' = emails
            /\ UNCHANGED <<emails, link_i, checked_count, scan_log, llm_log>>
       ELSE LET link_url == links_to_check[link_i]
            IN  /\ link_i' = link_i + 1
                /\ UNCHANGED <<fpc, find_ret>>
                /\ IF ~IsHttp(link_url) \/ link_url.kind = "mailto"
                   THEN UNCHANGED <<emails, checked_count, scan_log, llm_log>>
                   ELSE LET ret == scan_page_for_emails(PageScan(link_url, o))
                        IN  /\ scan_log' = Append(scan_log, link_url)
                            /\ llm_log' = LogLlm(llm_log, ret)
                            /\ IF ret.raised
                               THEN UNCHANGED <<emails, checked_count>>
                               ELSE /\ emails' = emails \cup ret.emails
                                    /\ checked_count' = checked_count + 1
    /\ UNCHANGED <<website_url, links_to_check, mailto_log>>
    /\ UNCHANGED notH

NextH ==
    \/ \E u \in WebsiteArgs : CallFind(u)
    \/ \E o \in ScanOutcomes : ScanMain(o)
    \/ \E fetch \in {"ok", "fail", "raise"} : ExtractLinks(fetch)
    \/ \E o \in ScanOutcomes : CheckLink(o)

(***************************************************************************)
(* Part H: properties                                                      *)
(***************************************************************************)
\* C12: once a scan has reported an LLM configuration error, no later scan of
\* the run makes an LLM run again, and the error is reported once.
C12_ConfigErrorEndsLlmUse ==
    /\ llm_log.runs_after_error = 0
    /\ llm_log.config_errors <= 1

\* C14: per website at most 3 contact links are passed to
\* scan_page_for_emails after the primary page, whether the scans succeed
\* or raise.
C14_AtMostThreeLinkScans ==
    Len(scan_log) <= 1 + MaxContactPages

\* C15: within the pass over one website no URL is passed to
\* scan_page_for_emails more than once.
C15_NoUrlScannedTwice ==
    \A i, j \in 1..Len(scan_log) : i # j => scan_log[i] # scan_log[j]

\* a relative link stays on the origin of the page; an absolute one is on it
\* when its scheme and host are those of the page
SameOrigin(link, page) ==
    \/ link.kind = "rel"
    \/ link.kind = page.kind /\ link.host = page.host

\* C16: every link extract_links_from_page returns, and every link scanned,
\* has the scheme and host of the page it was found on.
C16_SameOriginLinksOnly ==
    /\ \A i \in 1..Len(links_to_check) : SameOrigin(links_to_check[i], website_url)
    /\ \A i \in 1..Len(scan_log) : SameOrigin(scan_log[i], website_url)

\* C25: a mailto anchor of the page with a non-empty address and a query
\* gives exactly its address, the part before the "?", as an email, and the
\* address stays among the emails of the website whether or not it passes
\* is_valid_email.
C25_MailtoBypass ==
    /\ mailto_log.emails = {AsCandidate(a.host) : a \in mailto_log.anchors}
    /\ mailto_log.emails \subseteq emails
    /\ (fpc = "returned" /\ mailto_log.anchors # {}) => mailto_log.emails \subseteq find_ret

\* a website returned with the address of a mailto anchor that has a query and
\* ends in an excluded extension
C25_Witness ==
    /\ fpc = "returned"
    /\ \E a \in mailto_log.anchors :
           /\ a.path # ""
           /\ ~is_valid_email(AsCandidate(a.host))
           /\ AsCandidate(a.host) \in find_ret

(***************************************************************************)
(* Part I.  find_contact_email.py: get_company_info_from_seedtable         *)
(***************************************************************************)
\* slugs are kept as their hyphen-separated lower-case segments
Slugs == {<<"acme">>, <<"acme", "gmbh">>, <<"acme", "labs">>, <<"acme", "labs", "gmbh">>}
NoLinkedin == <<>>

\* the alternatives of the suffix pattern -(inc|gmbh|llc|ltd|ab|co|group)$
CorporateSuffixes == {"inc", "gmbh", "llc", "ltd", "ab", "co", "group"}

\* company_id.split('-')[0] if '-' in company_id else company_id
NameOf(id) == <<id[1]>>

\* re.sub(r'-(inc|gmbh|llc|ltd|ab|co|group)$', '', company_path)
StripSuffix(slug) ==
    IF Len(slug) > 1 /\ slug[Len(slug)] \in CorporateSuffixes
    THEN SubSeq(slug, 1, Len(slug) - 1)
    ELSE slug

Guess(www, base, tld) == [www |-> www, base |-> base, tld |-> tld]

\* website_guesses of the LinkedIn strategy
LinkedinGuesses(clean_name) ==
    <<Guess(FALSE, clean_name, "com"), Guess(TRUE, clean_name, "com")>>

\* website_guesses of the company-name strategy
NameGuesses(clean_name) ==
    <<Guess(FALSE, clean_name, "com"), Guess(TRUE, clean_name, "com"),
      Guess(FALSE, clean_name, "io"), Guess(TRUE, clean_name, "io"),
      Guess(FALSE, clean_name, "co"), Guess(TRUE, clean_name, "co")>>

\* requests.head(guess, timeout=3): a status code, or 0 for an exception
\* (connection error, timeout)
ProbeAnswers == {200, 399, 400, 404, 0}

\* an exception of a probe leaves the function
ProbeVerdictUncaught(answer) ==
    IF answer = 0 THEN "raised" ELSE IF answer < 400 THEN "accepted" ELSE "rejected"

\* verify_resp.status_code < 400; an exception passes on to the next guess
ProbeVerdict(answer) ==
    IF answer # 0 /\ answer < 400 THEN "accepted" ELSE "rejected"

\* the strategy that follows the parsing of the detail page
AfterDetail(websites, linkedin) ==
    IF websites = <<>> /\ linkedin # NoLinkedin THEN "linkedin"
    ELSE IF websites = <<>> THEN "name"
    ELSE "returned"

\* what requests.get(seedtable_url) gives: an exception, a status other
\* than 200, or the page with its website links and LinkedIn link
DetailPages ==
    {[fetch |-> "raise", websites |-> <<>>, linkedin |-> NoLinkedin],
     [fetch |-> "status", websites |-> <<>>, linkedin |-> NoLinkedin]}
    \cup {[fetch |-> "ok", websites |-> ws, linkedin |-> li] :
            ws \in {<<>>, <<"https://acme.example">>}, li \in {NoLinkedin} \cup Slugs}

NoInfo == [name |-> <<>>, websites |-> <<>>, linkedin |-> NoLinkedin]

RestI ==
    /\ ipc = "idle"
    /\ company_id = <<>>
    /\ company_info = NoInfo
    /\ guess_i = 1
    /\ field_websites = <<>>
    /\ probes = <<>>

InitI == RestI

QuietI == RestI

\* get_company_info_from_seedtable(company_id) up to requests.get
CallSeedtable(id) ==
    /\ ipc = "idle"
    /\ company_id' = id
    /\ company_info' = [name |-> NameOf(id), websites |-> <<>>, linkedin |-> NoLinkedin]
    /\ ipc' = "get"
    /\ UNCHANGED <<guess_i, field_websites, probes>>
    /\ UNCHANGED notI

\* the detail page is fetched and parsed: website links, LinkedIn link
GetDetail(page) ==
    /\ ipc = "get"
    /\ IF page.fetch # "ok"
       THEN /\ ipc' = "returned"
            /\ UNCHANGED <<company_info, field_websites>>
       ELSE /\ company_info' = [company_info EXCEPT !.websites = page.websites,
                                                     !.linkedin = page.linkedin]
            /\ field_websites' = page.websites
            /\ ipc' = AfterDetail(page.websites, page.linkedin)
    /\ guess_i' = 1
    /\ UNCHANGED <<company_id, probes>>
    /\ UNCHANGED notI

\* one pass of a loop over website_guesses
Probe(strategy, guesses, answer) ==
    LET guess == guesses[guess_i]
        verdict == ProbeVerdict(answer)
    IN  /\ probes' = Append(probes, [strategy |-> strategy, guess |-> guess, verdict |-> verdict])
        /\ IF verdict = "accepted"
           THEN /\ company_info' = [company_info EXCEPT !.websites = Append(@, guess)]
                /\ ipc' = "returned"
                /\ guess_i' = 1
           ELSE IF verdict = "raised"
           THEN /\ ipc' = "raised"
                /\ UNCHANGED <<company_info, guess_i>>
           ELSE /\ UNCHANGED company_info
                /\ IF guess_i < Len(guesses)
                   THEN /\ guess_i' = guess_i + 1
                        /\ UNCHANGED ipc
                   ELSE /\ guess_i' = 1
                        /\ ipc' = IF strategy = "linkedin" THEN "name" ELSE "returned"

\* the guesses from the LinkedIn slug
ProbeLinkedin(answer) ==
    /\ ipc = "linkedin"
    /\ Probe("linkedin", LinkedinGuesses(StripSuffix(company_info.linkedin)), answer)
    /\ UNCHANGED <<company_id, field_websites>>
    /\ UNCHANGED notI

\* the guesses from the company name
ProbeName(answer) ==
    /\ ipc = "name"
    /\ Probe("name", NameGuesses(company_info.name), answer)
    /\ UNCHANGED <<company_id, field_websites>>
    /\ UNCHANGED notI

NextI ==
    \/ \E id \in Slugs : CallSeedtable(id)
    \/ \E page \in DetailPages : GetDetail(page)
    \/ \E answer \in ProbeAnswers : ProbeLinkedin(answer)
    \/ \E answer \in ProbeAnswers : ProbeName(answer)

(***************************************************************************)
(* Part I: properties                                                      *)
(***************************************************************************)
ProbesOf(strategy) == {i \in 1..Len(probes) : probes[i].strategy = strategy}

SourceSlug(strategy) == IF strategy = "linkedin" THEN company_info.linkedin ELSE company_id

HasCorporateSuffix(slug) == StripSuffix(slug) # slug

\* C18: the candidate domains are built from the slug with the corporate
\* suffix removed; .com variants are probed before .io and .co; the first
\* candidate answering with a status below 400 is accepted and no later one
\* is probed; a probe that raises counts as rejected and never propagates.
C18_DomainGuessing ==
    /\ ipc # "raised"
    /\ \A i \in 1..Len(probes) :
          /\ HasCorporateSuffix(SourceSlug(probes[i].strategy)) =>
                probes[i].guess.base = StripSuffix(SourceSlug(probes[i].strategy))
          /\ probes[i].verdict = "accepted" => i = Len(probes)
          /\ \A j \in 1..Len(probes) :
                (probes[i].strategy = probes[j].strategy
                    /\ probes[i].guess.tld = "com" /\ probes[j].guess.tld # "com") => i < j

(***************************************************************************)
(* Part J.  main.py: crawl_startups, and utils/scraper_utils.py:           *)
(* fetch_and_process_page                                                  *)
(***************************************************************************)
MaxPageNumber == 5     \* pages of the directory the model follows
EmptyPagesToEnd == 3

StartupNames == {"s1", "s2", "s3"}

\* a page of the directory: the "No companies found" marker, whether the
\* fetch succeeds, and the names of the items with complete data
DirectoryPage(m, ok, ns) == [marker |-> m, success |-> ok, names |-> ns]
DirectoryPages ==
    {DirectoryPage(TRUE, TRUE, {}), DirectoryPage(FALSE, FALSE, {})}
    \cup {DirectoryPage(FALSE, TRUE, ns) : ns \in SUBSET StartupNames}

\* fetch_and_process_page: (startups, no_results_found)
fetch_and_process_page(page, seen) ==
    IF page.success /\ page.marker
    THEN [startups |-> {}, no_results_found |-> TRUE]
    ELSE IF ~page.success
    THEN [startups |-> {}, no_results_found |-> FALSE]
    ELSE [startups |-> page.names \ seen, no_results_found |-> FALSE]

RestJ ==
    /\ jpc = "idle"
    /\ page_number = 1
    /\ all_startups = {}
    /\ seen_names = {}
    /\ page_yields = <<>>
    /\ end_reason = ""

InitJ == RestJ

QuietJ == RestJ

\* crawl_startups up to the loop
StartCrawl ==
    /\ jpc = "idle"
    /\ jpc' = "crawling"
    /\ UNCHANGED <<page_number, all_startups, seen_names, page_yields, end_reason>>
    /\ UNCHANGED notJ

\* one pass of the while loop
CrawlPage(page) ==
    /\ jpc = "crawling"
    /\ page_number <= MaxPageNumber
    /\ LET ret == fetch_and_process_page(page, seen_names)
       IN  /\ seen_names' = seen_names \cup ret.startups
           /\ IF ret.no_results_found
              THEN /\ jpc' = "ended"
                   /\ end_reason' = "no_results"
                   /\ UNCHANGED <<page_number, all_startups, page_yields>>
              ELSE /\ page_yields' = Append(page_yields, Cardinality(ret.startups))
                   /\ page_number' = page_number + 1
                   /\ IF ret.startups = {}
                      THEN /\ UNCHANGED all_startups
                           /\ IF page_number + 1 > EmptyPagesToEnd
                              THEN /\ jpc' = "ended"
                                   /\ end_reason' = "empty_pages"
                              ELSE UNCHANGED <<jpc, end_reason>>
                      ELSE /\ all_startups' = all_startups \cup ret.startups
                           /\ UNCHANGED <<jpc, end_reason>>
    /\ UNCHANGED notJ

NextJ ==
    \/ StartCrawl
    \/ \E page \in DirectoryPages : CrawlPage(page)

(***************************************************************************)
(* Part J: properties                                                      *)
(***************************************************************************)
\* the number of pages at the end of the list that yielded no startups
RECURSIVE TrailingEmpty(_)
TrailingEmpty(yields) ==
    IF yields = <<>> \/ yields[Len(yields)] # 0 THEN 0
    ELSE 1 + TrailingEmpty(SubSeq(yields, 1, Len(yields) - 1))

\* C20: crawl_startups ends the crawl because of empty pages only after
\* three consecutive pages yielded no startups, and three consecutive empty
\* pages always end it.
C20_ThreeConsecutiveEmptyPages ==
    /\ end_reason = "empty_pages" => TrailingEmpty(page_yields) >= EmptyPagesToEnd
    /\ jpc = "crawling" => TrailingEmpty(page_yields) < EmptyPagesToEnd

(***************************************************************************)
(* Part K.  eu_startups_scraper.py: EUStartupsScraper._get_page_content    *)
(***************************************************************************)
MaxRedirects == 2      \* redirects session.get follows in the model
Delay == 5             \* self.delay, in tenths of a second
RateLimitWait == 50    \* time.sleep(5), in tenths of a second

CompanyPages == {"u1", "u2", "u3"}
Bodies == {"", "<html>", "<html>website</html>"}

\* the statuses a server answers with; 301 carries a Location header, 300
\* does not
Statuses == {200, 204, 300, 301, 404, 429, 500}
Is2xx(s) == s >= 200 /\ s < 300
IsRedirect(s) == s = 301

\* Response.raise_for_status: HTTPError for 4xx and 5xx only
RaisesForStatus(s) == s >= 400 /\ s < 600

\* a failure of the transport (requests.ConnectionError, Timeout) and an
\* exception that is no RequestException
NetworkError == 0
UnexpectedError == 1
Failures == {NetworkError, UnexpectedError}

RestK ==
    /\ gpc = "idle"
    /\ get_url = ""
    /\ http_log = <<>>
    /\ slept = 0
    /\ get_ret = ""
    /\ get_error = ""

InitK == RestK

QuietK == RestK

\* _get_page_content up to session.get
CallGetPage(u) ==
    /\ gpc \in {"idle", "returned"}
    /\ gpc' = "get"
    /\ get_url' = u
    /\ http_log' = <<>>
    /\ slept' = 0
    /\ get_ret' = ""
    /\ get_error' = ""
    /\ UNCHANGED notK

\* session.get receives a response: a redirect is followed with a further
\* request, any other response ends the call
GetResponse(s, body) ==
    /\ gpc = "get"
    /\ http_log' = Append(http_log, s)
    /\ IF IsRedirect(s)
       THEN IF Len(http_log) < MaxRedirects
            THEN /\ UNCHANGED <<gpc, slept, get_ret, get_error>>
            ELSE \* TooManyRedirects, a RequestException without a 429
                 /\ gpc' = "returned"
                 /\ get_ret' = ""
                 /\ get_error' = "http"
                 /\ UNCHANGED slept
       ELSE /\ gpc' = "returned"
            /\ IF RaisesForStatus(s)
               THEN /\ get_ret' = ""
                    /\ get_error' = "http"
                    /\ slept' = IF s = 429 THEN RateLimitWait ELSE 0
               ELSE /\ get_ret' = body
                    /\ slept' = Delay
                    /\ UNCHANGED get_error
    /\ UNCHANGED get_url
    /\ UNCHANGED notK

\* session.get raises instead of answering
GetFails(f) ==
    /\ gpc = "get"
    /\ http_log' = Append(http_log, f)
    /\ gpc' = "returned"
    /\ get_ret' = ""
    /\ get_error' = IF f = NetworkError THEN "network" ELSE "unexpected"
    /\ UNCHANGED <<get_url, slept>>
    /\ UNCHANGED notK

NextK ==
    \/ \E u \in CompanyPages : CallGetPage(u)
    \/ \E s \in Statuses, body \in Bodies : GetResponse(s, body)
    \/ \E f \in Failures : GetFails(f)

\* C21: a call of _get_page_content sends exactly one HTTP request, never
\* raises, returns the empty string whenever the last answer was no 2xx
\* status or the transport failed, and after a 429 it has slept the fixed
\* back-off, longer than the normal delay, without a further request.
C21_OneRequestEmptyOnFailure ==
    gpc = "returned" =>
        /\ Len(http_log) = 1
        /\ LET last == http_log[Len(http_log)]
           IN  /\ ~Is2xx(last) => get_ret = ""
               /\ last = 429 => slept = RateLimitWait /\ RateLimitWait > Delay

\* C32: every call of _get_page_content that has returned has slept the
\* per-request delay first, whether the request succeeded, was answered
\* with a status that is no 2xx, or failed on the network.
C32_DelayBeforeEveryReturn ==
    gpc = "returned" => slept >= Delay

(***************************************************************************)
(* Part L.  find_contact_email.py: process_country_csv_files               *)
(***************************************************************************)
MaxFileRows == 2       \* rows of one per-country file

CsvWebsiteUrls == {"", "w1", "w2"}
CompanyNames == {"n1", "n2"}

CountryCsvRow(u, n) == [website_url |-> u, name |-> n]
CountryCsvRows ==
    {CountryCsvRow("", "n1")}
    \cup {CountryCsvRow(u, n) : u \in CsvWebsiteUrls \ {""}, n \in CompanyNames}

\* a file of scrape_results: it may be absent, and reading it may raise
CountryCsv(e, r, rows) == [exists |-> e, readable |-> r, rows |-> rows]
CountryCsvs ==
    {CountryCsv(FALSE, FALSE, <<>>), CountryCsv(TRUE, FALSE, <<>>)}
    \cup {CountryCsv(TRUE, TRUE, rows) : rows \in SeqsUpTo(CountryCsvRows, MaxFileRows)}

\* a mutation of AddUnique: every row with a website is added
AddEvery(sofar, row, country) ==
    IF row.website_url = ""
    THEN sofar
    ELSE Append(sofar, [name |-> row.name, country |-> country,
                        website_url |-> row.website_url])

\* one pass of the loop over country_companies: unique_companies, in insertion
\* order
AddUnique(sofar, row, country) ==
    IF row.website_url = ""
       \/ \E i \in 1..Len(sofar) : sofar[i].website_url = row.website_url
    THEN sofar
    ELSE Append(sofar, [name |-> row.name, country |-> country,
                        website_url |-> row.website_url])

RECURSIVE AddFile(_, _, _)
AddFile(sofar, rows, country) ==
    IF rows = <<>>
    THEN sofar
    ELSE AddFile(AddUnique(sofar, Head(rows), country), Tail(rows), country)

\* the loop over csv_files; a file whose reading raises adds nothing
RECURSIVE ReadCountryFiles(_, _, _)
ReadCountryFiles(sofar, files, k) ==
    IF k > Len(files)
    THEN sofar
    ELSE ReadCountryFiles(
             IF files[k].exists /\ files[k].readable
             THEN AddFile(sofar, files[k].rows, k)
             ELSE sofar,
             files, k + 1)

\* how find_emails_for_company ends: the emails joined with commas, or the
\* text of the exception
Extraction(r, t) == [raised |-> r, text |-> t]
Extractions ==
    {Extraction(FALSE, ""), Extraction(FALSE, "info@w.eu"),
     Extraction(TRUE, "timeout")}

EmailsColumn(x) == IF x.raised THEN "ERROR: " \o x.text ELSE x.text

RestL ==
    /\ ccpc = "idle"
    /\ companies_list = <<>>
    /\ list_i = 1
    /\ emails_csv = <<>>
    /\ emails_csv_opened = FALSE
    /\ extract_log = <<>>

InitL ==
    /\ csv_files \in [1..2 -> CountryCsvs]
    /\ RestL

QuietL ==
    /\ csv_files = <<>>
    /\ RestL

\* process_country_csv_files up to the loop over companies_list
StartCountryCsv ==
    /\ ccpc = "idle"
    /\ IF \A k \in 1..Len(csv_files) : ~csv_files[k].exists
       THEN /\ ccpc' = "nofiles"
            /\ UNCHANGED <<companies_list, emails_csv_opened>>
       ELSE /\ ccpc' = "loop"
            /\ companies_list' = ReadCountryFiles(<<>>, csv_files, 1)
            /\ emails_csv_opened' = TRUE
    /\ UNCHANGED <<csv_files, list_i, emails_csv, extract_log>>
    /\ UNCHANGED notL

\* one pass of the loop over companies_list
FindEmails(x) ==
    /\ ccpc = "loop"
    /\ list_i <= Len(companies_list)
    /\ LET company == companies_list[list_i]
       IN  emails_csv' = Append(emails_csv,
               [name |-> company.name, country |-> company.country,
                website_url |-> company.website_url,
                emails |-> EmailsColumn(x)])
    /\ extract_log' = Append(extract_log, x)
    /\ list_i' = list_i + 1
    /\ UNCHANGED <<csv_files, ccpc, companies_list, emails_csv_opened>>
    /\ UNCHANGED notL

\* the loop is over and the file is closed
EndCountryCsv ==
    /\ ccpc = "loop"
    /\ list_i > Len(companies_list)
    /\ ccpc' = "done"
    /\ UNCHANGED <<csv_files, companies_list, list_i, emails_csv,
                   emails_csv_opened, extract_log>>
    /\ UNCHANGED notL

NextL ==
    \/ StartCountryCsv
    \/ \E x \in Extractions : FindEmails(x)
    \/ EndCountryCsv

\* the rows of the files that are read, in the order read, each with the
\* index of its file
RECURSIVE RowsRead(_, _)
RowsRead(files, k) ==
    IF k > Len(files)
    THEN <<>>
    ELSE (IF files[k].exists /\ files[k].readable
          THEN [i \in 1..Len(files[k].rows) |->
                   [name |-> files[k].rows[i].name, country |-> k,
                    website_url |-> files[k].rows[i].website_url]]
          ELSE <<>>) \o RowsRead(files, k + 1)

FirstOccurrence(rows, u) ==
    rows[CHOOSE i \in 1..Len(rows) :
            /\ rows[i].website_url = u
            /\ \A j \in 1..(i - 1) : rows[j].website_url # u]

\* C22: when process_country_csv_files is done, the output holds exactly one
\* row for every distinct non-empty website_url of the per-country files and
\* no other row, the row carries the name and country of the first occurrence,
\* and a company whose extraction raised has its one row with
\* 'ERROR: <reason>' while the companies after it are still processed.
C22_OneRowPerWebsiteErrorsKept ==
    ccpc = "done" =>
        LET rows == RowsRead(csv_files, 1)
            urls == {rows[i].website_url : i \in 1..Len(rows)} \ {""}
        IN  /\ Len(emails_csv) = Cardinality(urls)
            /\ Len(extract_log) = Len(emails_csv)
            /\ \A u \in urls :
                   \E i \in 1..Len(emails_csv) :
                       /\ emails_csv[i].website_url = u
                       /\ emails_csv[i].name = FirstOccurrence(rows, u).name
                       /\ emails_csv[i].country = FirstOccurrence(rows, u).country
                       /\ \A j \in 1..Len(emails_csv) :
                              emails_csv[j].website_url = u => j = i
            /\ \A i \in 1..Len(emails_csv) :
                   /\ emails_csv[i].website_url \in urls
                   /\ emails_csv[i].emails = EmailsColumn(extract_log[i])
                   /\ extract_log[i].raised =>
                          emails_csv[i].emails = "ERROR: timeout"

\* a run over two files that share a website, where the extraction of the
\* first company raised and the second company was still processed
C22_Witness ==
    /\ ccpc = "done"
    /\ Len(emails_csv) = 2
    /\ extract_log[1].raised
    /\ ~extract_log[2].raised
    /\ \E i \in 1..Len(csv_files[1].rows), j \in 1..Len(csv_files[2].rows) :
           /\ csv_files[1].rows[i].website_url = csv_files[2].rows[j].website_url
           /\ csv_files[1].rows[i].website_url # ""
           /\ csv_files[1].rows[i].name # csv_files[2].rows[j].name

(***************************************************************************)
(* Part M.  The checkpoint file of a country as the scripts name it:       *)
(* eu_startups_crawler.py (crawl_all_countries, save_interim_results),     *)
(* eu_startups_main.py (run_complete_process) and eu_startups_scraper.py   *)
(* (process_companies_from_files)                                          *)
(***************************************************************************)
MaxLabelLen == 2       \* characters of a country label

LabelChars == {"A", "t", " ", "-", "_"}
CountryLabels == SeqsUpTo(LabelChars, MaxLabelLen) \ {<<>>}

\* run_complete_process: country.replace(' ', '_')
SpaceToUnderscore(country) ==
    [i \in DOMAIN country |-> IF country[i] = " " THEN "_" ELSE country[i]]

\* process_companies_from_files: the country of a file name,
\* filename.replace('_companies.txt', '').replace('_', ' ')
CountryOfFile(name) ==
    [i \in DOMAIN name |-> IF name[i] = "_" THEN " " ELSE name[i]]

\* the file name without '_companies.txt' a script writes for a label
WrittenName(script, country) ==
    CASE script = "crawler" -> SafeCountry(country)
      [] script = "main"    -> SpaceToUnderscore(country)

\* whether a script finds a checkpoint for a label among the files: the
\* crawler and run_complete_process test the name they derive, the scraper
\* with --country compares the country of every file with the label
FindsCheckpoint(script, country, files) ==
    CASE script = "crawler" -> SafeCountry(country) \in files
      [] script = "main"    -> SpaceToUnderscore(country) \in files
      [] script = "scraper" ->
            \E name \in files : Lower(CountryOfFile(name)) = Lower(country)

RestM ==
    /\ mpc = "idle"
    /\ crawl_dir = {}
    /\ writer = ""
    /\ reader = ""
    /\ found = FALSE

InitM == label \in CountryLabels /\ RestM

QuietM == label = <<>> /\ RestM

\* a script lists the country and writes its checkpoint
WriteCheckpoint(script) ==
    /\ mpc = "idle"
    /\ crawl_dir' = {WrittenName(script, label)}
    /\ writer' = script
    /\ mpc' = "written"
    /\ UNCHANGED <<label, reader, found>>
    /\ UNCHANGED notM

\* a later run of a script looks for the checkpoint of the country
LookupCheckpoint(script) ==
    /\ mpc = "written"
    /\ found' = FindsCheckpoint(script, label, crawl_dir)
    /\ reader' = script
    /\ mpc' = "looked"
    /\ UNCHANGED <<label, crawl_dir, writer>>
    /\ UNCHANGED notM

NextM ==
    \/ \E script \in {"crawler", "main"} : WriteCheckpoint(script)
    \/ \E script \in {"crawler", "main", "scraper"} : LookupCheckpoint(script)

\* C28: every script derives the same checkpoint file name from a label, each
\* character that is no letter or digit replaced by "_", so the checkpoint a
\* script wrote for a label is found by every script that looks for it, also
\* for labels with hyphens or other punctuation.
C28_SameCheckpointName ==
    /\ mpc # "idle" => crawl_dir = {SafeCountry(label)}
    /\ mpc = "looked" => found

\* C40: the checkpoint crawl_all_countries wrote for a label is the file
\* process_companies_from_files selects when the label is its filter, and
\* the country it derives from the file name is the label, also for labels
\* with hyphens or underscores.
C40_LabelRoundTrip ==
    (mpc = "looked" /\ writer = "crawler" /\ reader = "scraper") =>
        /\ found
        /\ \A name \in crawl_dir : CountryOfFile(name) = label

(***************************************************************************)
(* Part N.  find_contact_email.py: the end of find_emails_for_company and  *)
(* the emails column process_company writes                                *)
(***************************************************************************)
MaxCollected == 2      \* addresses in one of the lists collected

Addresses == {GoodEmail, ImageName, Placeholder}
AddressLists == SeqsUpTo(Addresses, MaxCollected)

Collected(m, mt, ln) == [main |-> m, mailto |-> mt, links |-> ln]
NoneCollected == Collected(<<>>, <<>>, <<>>)

\* emails.extend(main_emails); emails.extend(mailto_emails);
\* emails.extend(link_emails)
ExtendAll(c) == c.main \o c.mailto \o c.links

\* a mutation of ListOfSet: the list as it was collected
ListAsCollected(list) == {list}

\* list(set(emails)): the lists that hold every element of the list once, in
\* any order
ListOfSet(list) ==
    {s \in SeqsUpTo(Range(list), Cardinality(Range(list))) :
        /\ Len(s) = Cardinality(Range(list))
        /\ Range(s) = Range(list)}

RestN ==
    /\ jpc_emails = "idle"
    /\ emails_value = <<>>

InitN ==
    /\ collected \in {Collected(m, mt, ln) :
                        m \in AddressLists, mt \in AddressLists, ln \in AddressLists}
    /\ RestN

QuietN == collected = NoneCollected /\ RestN

\* find_emails_for_company returns list(set(emails)) and process_company
\* joins the list with commas into the emails column
WriteEmails ==
    /\ jpc_emails = "idle"
    /\ emails_value' \in ListOfSet(ExtendAll(collected))
    /\ jpc_emails' = "written"
    /\ UNCHANGED collected
    /\ UNCHANGED notN

NextN == WriteEmails

\* C31: the emails value of a row written holds no address twice, and holds
\* every address collected from the main page, the mailto links and the
\* followed links.
C31_NoAddressTwice ==
    jpc_emails = "written" =>
        /\ \A i, j \in 1..Len(emails_value) :
               emails_value[i] = emails_value[j] => i = j
        /\ Range(emails_value) = Range(ExtendAll(collected))

\* a row for a website where the main page and a followed link gave the same
\* address and the mailto links gave another
C31_Witness ==
    /\ jpc_emails = "written"
    /\ \E i \in 1..Len(collected.main), j \in 1..Len(collected.links) :
           collected.main[i] = collected.links[j]
    /\ collected.mailto # <<>>
    /\ Len(emails_value) = 2

(***************************************************************************)
(* Part O.  find_contact_email.py: process_company under several workers.  *)
(* Taking the lock, writing the row and releasing the lock are separate    *)
(* steps, so that every order in which the workers could be scheduled      *)
(* around the row-write section is covered.                                *)
(***************************************************************************)
MaxWriters == 3        \* worker tasks
MaxQueued == 3         \* companies in the queue

Writers == 1..MaxWriters
NoHolder == 0
WritePaths == {"nowebsite", "success", "error"}

\* a mutation of LockFree: the lock never makes a task wait
LockNeverWaits(holder) == TRUE

\* asyncio.Lock.acquire goes on only when no task holds the lock
LockFree(holder) == holder = NoHolder

InSection(w) == wpc[w] \in {"section", "written"}

RestO ==
    /\ csv_lock = NoHolder
    /\ row_log = <<>>

InitO ==
    /\ pending \in 1..MaxQueued
    /\ wpc = [w \in Writers |-> "loop"]
    /\ wpath = [w \in Writers |-> ""]
    /\ RestO

QuietO ==
    /\ pending = 0
    /\ wpc = <<>>
    /\ wpath = <<>>
    /\ RestO

\* worker(): the loop test, queue.get() and the start of process_company; a
\* company without website_url goes to the row-write section at once
TakeCompany(w, has_url) ==
    /\ wpc[w] = "loop"
    /\ pending > 0
    /\ pending' = pending - 1
    /\ IF has_url
       THEN /\ wpc' = [wpc EXCEPT ![w] = "extract"]
            /\ UNCHANGED wpath
       ELSE /\ wpc' = [wpc EXCEPT ![w] = "acquire"]
            /\ wpath' = [wpath EXCEPT ![w] = "nowebsite"]
    /\ UNCHANGED <<csv_lock, row_log>>
    /\ UNCHANGED notO

\* find_emails_for_company returns or raises
ExtractEnds(w, raised_exc) ==
    /\ wpc[w] = "extract"
    /\ wpc' = [wpc EXCEPT ![w] = "acquire"]
    /\ wpath' = [wpath EXCEPT ![w] = IF raised_exc THEN "error" ELSE "success"]
    /\ UNCHANGED <<csv_lock, pending, row_log>>
    /\ UNCHANGED notO

\* async with stats['csv_lock']: entered
AcquireLock(w) ==
    /\ wpc[w] = "acquire"
    /\ LockFree(csv_lock)
    /\ csv_lock' = w
    /\ wpc' = [wpc EXCEPT ![w] = "section"]
    /\ UNCHANGED <<wpath, pending, row_log>>
    /\ UNCHANGED notO

\* writer.writerow(company)
WriteRow(w) ==
    /\ wpc[w] = "section"
    /\ row_log' = Append(row_log, wpath[w])
    /\ wpc' = [wpc EXCEPT ![w] = "written"]
    /\ UNCHANGED <<csv_lock, wpath, pending>>
    /\ UNCHANGED notO

\* async with stats['csv_lock']: left; process_company returns
ReleaseLock(w) ==
    /\ wpc[w] = "written"
    /\ csv_lock' = NoHolder
    /\ wpc' = [wpc EXCEPT ![w] = "loop"]
    /\ wpath' = [wpath EXCEPT ![w] = ""]
    /\ UNCHANGED <<pending, row_log>>
    /\ UNCHANGED notO

\* worker(): the queue is empty, the loop ends
WorkerExit(w) ==
    /\ wpc[w] = "loop"
    /\ pending = 0
    /\ wpc' = [wpc EXCEPT ![w] = "exit"]
    /\ UNCHANGED <<csv_lock, wpath, pending, row_log>>
    /\ UNCHANGED notO

NextO ==
    \/ \E w \in Writers, has_url \in BOOLEAN : TakeCompany(w, has_url)
    \/ \E w \in Writers, raised_exc \in BOOLEAN : ExtractEnds(w, raised_exc)
    \/ \E w \in Writers : AcquireLock(w)
    \/ \E w \in Writers : WriteRow(w)
    \/ \E w \in Writers : ReleaseLock(w)
    \/ \E w \in Writers : WorkerExit(w)

\* C33: a worker that is inside the row-write section, on the no-website,
\* the success or the error path, holds csv_lock, and never two workers are
\* inside the section at the same time; only a worker on one of the three
\* paths is inside it.
C33_RowWritesUnderLock ==
    /\ \A w \in DOMAIN wpc :
           InSection(w) => csv_lock = w /\ wpath[w] \in WritePaths
    /\ \A v, w \in DOMAIN wpc : InSection(v) /\ InSection(w) => v = w

\* a row of the success path has been written, a worker on the error path
\* is inside the section and a worker on the no-website path waits for the
\* lock
C33_Witness ==
    /\ \E v, w \in DOMAIN wpc :
           /\ wpc[v] = "section" /\ wpath[v] = "error"
           /\ wpc[w] = "acquire" /\ wpath[w] = "nowebsite"
    /\ \E i \in 1..Len(row_log) : row_log[i] = "success"

(***************************************************************************)
(* Part P.  eu_startups_scraper.py: the thread-local session of            *)
(* _get_page_content, called by the pool threads on one shared scraper     *)
(***************************************************************************)
PoolThreads == 1..MaxThreads
NoSession == 0

\* a mutation of SessionOf: a plain attribute, the same for every thread
SessionOfAnyThread(local, t) ==
    IF \E u \in DOMAIN local : local[u] # NoSession
    THEN local[CHOOSE u \in DOMAIN local : local[u] # NoSession]
    ELSE NoSession

\* self.session_local.session as the thread t sees it: threading.local keeps
\* one attribute per thread
SessionOf(local, t) == local[t]

RestP ==
    /\ session_uses = {}
    /\ next_session = 0

InitP ==
    /\ tasks_left \in 1..MaxFetches
    /\ session_local = [t \in PoolThreads |-> NoSession]
    /\ tpc = [t \in PoolThreads |-> "idle"]
    /\ sessions_made = [t \in PoolThreads |-> 0]
    /\ RestP

QuietP ==
    /\ tasks_left = 0
    /\ session_local = <<>>
    /\ tpc = <<>>
    /\ sessions_made = <<>>
    /\ RestP

\* a pool thread takes a task and enters _get_page_content
EnterGetPage(t) ==
    /\ tpc[t] = "idle"
    /\ tasks_left > 0
    /\ tasks_left' = tasks_left - 1
    /\ tpc' = [tpc EXCEPT ![t] = "check"]
    /\ UNCHANGED <<session_local, sessions_made, session_uses, next_session>>
    /\ UNCHANGED notP

\* if not hasattr(self.session_local, 'session')
CheckSession(t) ==
    /\ tpc[t] = "check"
    /\ tpc' = [tpc EXCEPT ![t] =
                  IF SessionOf(session_local, t) = NoSession THEN "create" ELSE "get"]
    /\ UNCHANGED <<session_local, sessions_made, session_uses, next_session, tasks_left>>
    /\ UNCHANGED notP

\* self.session_local.session = requests.Session()
CreateSession(t) ==
    /\ tpc[t] = "create"
    /\ next_session' = next_session + 1
    /\ session_local' = [session_local EXCEPT ![t] = next_session + 1]
    /\ sessions_made' = [sessions_made EXCEPT ![t] = @ + 1]
    /\ tpc' = [tpc EXCEPT ![t] = "get"]
    /\ UNCHANGED <<session_uses, tasks_left>>
    /\ UNCHANGED notP

\* self.session_local.session.get(url, ...) and the return of the call
SessionGet(t) ==
    /\ tpc[t] = "get"
    /\ session_uses' = session_uses \cup {<<t, SessionOf(session_local, t)>>}
    /\ tpc' = [tpc EXCEPT ![t] = "idle"]
    /\ UNCHANGED <<session_local, sessions_made, next_session, tasks_left>>
    /\ UNCHANGED notP

NextP ==
    \/ \E t \in PoolThreads : EnterGetPage(t)
    \/ \E t \in PoolThreads : CheckSession(t)
    \/ \E t \in PoolThreads : CreateSession(t)
    \/ \E t \in PoolThreads : SessionGet(t)

\* C34: no session is used by two threads, every request goes through a
\* session, and a thread creates at most one session, which every one of its
\* requests uses.
C34_OneSessionPerThread ==
    /\ \A x, y \in session_uses : x[2] = y[2] => x[1] = y[1]
    /\ \A x, y \in session_uses : x[1] = y[1] => x[2] = y[2]
    /\ \A x \in session_uses : x[2] # NoSession
    /\ \A t \in DOMAIN sessions_made : sessions_made[t] <= 1

\* both threads have fetched through their sessions, and one of them is in
\* a further call in which it found its session and creates none
C34_Witness ==
    /\ Cardinality(session_uses) = 2
    /\ \E t \in DOMAIN tpc :
           /\ tpc[t] = "get"
           /\ sessions_made[t] = 1
           /\ <<t, session_local[t]>> \in session_uses

(***************************************************************************)
(* Specifications: one per part, the other parts at rest; the last one has *)
(* the two entry points that check their input files side by side          *)
(***************************************************************************)
\* process_consolidated_csv
Init == InitA /\ QuietB /\ QuietC /\ QuietD /\ QuietE /\ QuietF /\ QuietG /\ QuietH /\ QuietI /\ QuietJ /\ QuietK /\ QuietL /\ QuietM /\ QuietN /\ QuietO /\ QuietP
Next == NextA
Spec == Init /\ [][Next]_vars

\* one call of process_consolidated_csv, where every worker task that can
\* run does run and every extraction started comes to an end
NextWorkers ==
    \/ \E w \in WorkerArgs, answer \in {"y", "n"}, readable \in BOOLEAN :
          runs = 0 /\ StartRun(w, answer, readable)
    \/ WorkerStart
    \/ SomeExtractReturn
    \/ GatherReturns
    \/ Interrupt
SpecWorkers == Init /\ [][NextWorkers]_vars /\ WF_vars(WorkerStart) /\ WF_vars(SomeExtractReturn) /\ WF_vars(GatherReturns)

\* process_companies_from_files
InitScraper == InitB /\ QuietA /\ QuietC /\ QuietD /\ QuietE /\ QuietF /\ QuietG /\ QuietH /\ QuietI /\ QuietJ /\ QuietK /\ QuietL /\ QuietM /\ QuietN /\ QuietO /\ QuietP
SpecScraper == InitScraper /\ [][NextB]_vars

\* extract_emails_from_websites
InitExtract == InitC /\ QuietA /\ QuietB /\ QuietD /\ QuietE /\ QuietF /\ QuietG /\ QuietH /\ QuietI /\ QuietJ /\ QuietK /\ QuietL /\ QuietM /\ QuietN /\ QuietO /\ QuietP
SpecExtract == InitExtract /\ [][NextC]_vars

\* extract_company_links
InitListing == InitD /\ QuietA /\ QuietB /\ QuietC /\ QuietE /\ QuietF /\ QuietG /\ QuietH /\ QuietI /\ QuietJ /\ QuietK /\ QuietL /\ QuietM /\ QuietN /\ QuietO /\ QuietP
SpecListing == InitListing /\ [][NextD]_vars

\* process_eu_startups
InitPipeline == InitE /\ site \in KnownSites /\ RestD /\ QuietA /\ QuietB /\ QuietC /\ QuietF /\ QuietG /\ QuietH /\ QuietI /\ QuietJ /\ QuietK /\ QuietL /\ QuietM /\ QuietN /\ QuietO /\ QuietP
SpecPipeline == InitPipeline /\ [][NextE]_vars

\* consolidate_csv_files
InitConsolidate == InitF /\ QuietA /\ QuietB /\ QuietC /\ QuietD /\ QuietE /\ QuietG /\ QuietH /\ QuietI /\ QuietJ /\ QuietK /\ QuietL /\ QuietM /\ QuietN /\ QuietO /\ QuietP
SpecConsolidate == InitConsolidate /\ [][NextF]_vars

\* scan_page_for_emails
InitScan == InitG /\ QuietA /\ QuietB /\ QuietC /\ QuietD /\ QuietE /\ QuietF /\ QuietH /\ QuietI /\ QuietJ /\ QuietK /\ QuietL /\ QuietM /\ QuietN /\ QuietO /\ QuietP
SpecScan == InitScan /\ [][NextG]_vars

\* scan_page_for_emails with LLM runs that keep failing; the call that was
\* made goes on to its end
InitScanRetry == InitRetry /\ QuietA /\ QuietB /\ QuietC /\ QuietD /\ QuietE /\ QuietF /\ QuietH /\ QuietI /\ QuietJ /\ QuietK /\ QuietL /\ QuietM /\ QuietN /\ QuietO /\ QuietP
SpecScanRetry == InitScanRetry /\ [][NextG]_vars /\ WF_vars(ScanPage)

\* find_emails_for_company
InitFind == InitH /\ QuietA /\ QuietB /\ QuietC /\ QuietD /\ QuietE /\ QuietF /\ QuietG /\ QuietI /\ QuietJ /\ QuietK /\ QuietL /\ QuietM /\ QuietN /\ QuietO /\ QuietP
SpecFind == InitFind /\ [][NextH]_vars

\* get_company_info_from_seedtable
InitSeedtable == InitI /\ QuietA /\ QuietB /\ QuietC /\ QuietD /\ QuietE /\ QuietF /\ QuietG /\ QuietH /\ QuietJ /\ QuietK /\ QuietL /\ QuietM /\ QuietN /\ QuietO /\ QuietP
SpecSeedtable == InitSeedtable /\ [][NextI]_vars

\* crawl_startups
InitCrawl == InitJ /\ QuietA /\ QuietB /\ QuietC /\ QuietD /\ QuietE /\ QuietF /\ QuietG /\ QuietH /\ QuietI /\ QuietK /\ QuietL /\ QuietM /\ QuietN /\ QuietO /\ QuietP
SpecCrawl == InitCrawl /\ [][NextJ]_vars

\* EUStartupsScraper._get_page_content
InitFetch == InitK /\ QuietA /\ QuietB /\ QuietC /\ QuietD /\ QuietE /\ QuietF /\ QuietG /\ QuietH /\ QuietI /\ QuietJ /\ QuietL /\ QuietM /\ QuietN /\ QuietO /\ QuietP
SpecFetch == InitFetch /\ [][NextK]_vars

\* process_country_csv_files
InitCountryCsv == InitL /\ QuietA /\ QuietB /\ QuietC /\ QuietD /\ QuietE /\ QuietF /\ QuietG /\ QuietH /\ QuietI /\ QuietJ /\ QuietK /\ QuietM /\ QuietN /\ QuietO /\ QuietP
SpecCountryCsv == InitCountryCsv /\ [][NextL]_vars

\* process_consolidated_csv and process_eu_startups, each on a small input
SetupInputCsv == <<Company(1, "http://a")>>
SetupSite == [u \in Urls |-> Page(IF u.path = 1 THEN <<GoodListing(1)>> ELSE <<>>, NoNext)]
InitSetup == input_csv = SetupInputCsv /\ RestA /\ InitE /\ site = SetupSite /\ RestD /\ QuietB /\ QuietC /\ QuietF /\ QuietG /\ QuietH /\ QuietI /\ QuietJ /\ QuietK /\ QuietL /\ QuietM /\ QuietN /\ QuietO /\ QuietP
NextSetup == NextA \/ NextE
SpecSetup == InitSetup /\ [][NextSetup]_vars

\* the checkpoint file names of the scripts
InitNames == InitM /\ QuietA /\ QuietB /\ QuietC /\ QuietD /\ QuietE /\ QuietF /\ QuietG /\ QuietH /\ QuietI /\ QuietJ /\ QuietK /\ QuietL /\ QuietN /\ QuietO /\ QuietP
SpecNames == InitNames /\ [][NextM]_vars

\* extract_company_links called with a page limit
NextLimit ==
    \/ \E u \in Urls, n \in MaxPagesArgs : CallExtractLimit(u, n)
    \/ \E ok \in BOOLEAN, content \in {Unknown} \cup UNION {Contents(u) : u \in Urls} :
          FetchPage(ok, content)
SpecListingLimit == InitListing /\ [][NextLimit]_vars

\* the emails column of a row
InitJoin == InitN /\ QuietA /\ QuietB /\ QuietC /\ QuietD /\ QuietE /\ QuietF /\ QuietG /\ QuietH /\ QuietI /\ QuietJ /\ QuietK /\ QuietL /\ QuietM /\ QuietO /\ QuietP
SpecJoin == InitJoin /\ [][NextN]_vars

\* the workers of process_consolidated_csv at the row-write section
InitLock == InitO /\ QuietA /\ QuietB /\ QuietC /\ QuietD /\ QuietE /\ QuietF /\ QuietG /\ QuietH /\ QuietI /\ QuietJ /\ QuietK /\ QuietL /\ QuietM /\ QuietN /\ QuietP
SpecLock == InitLock /\ [][NextO]_vars

\* the pool threads of the resolving stage and their sessions
InitSessions == InitP /\ QuietA /\ QuietB /\ QuietC /\ QuietD /\ QuietE /\ QuietF /\ QuietG /\ QuietH /\ QuietI /\ QuietJ /\ QuietK /\ QuietL /\ QuietM /\ QuietN /\ QuietO
SpecSessions == InitSessions /\ [][NextP]_vars

====
